---- MODULE Spec2Model ----
(***************************************************************************)
(* A model of the limb-level exact-division and squaring core of           *)
(* malachite-nz (32-bit limbs).                                            *)
(*                                                                         *)
(* A Limb is a u32.  TLC's integers are 32-bit signed, so a Limb is kept   *)
(* as the pair <<lower_half, upper_half>> of its two HalfLimbs (u16); all  *)
(* limb arithmetic below is exact arithmetic modulo 2^32 on such pairs.    *)
(* A limb slice is a sequence of Limbs, least significant first.  Rust     *)
(* slices are 0-based and half-open; Slice(s, a, b) is s[a..b].            *)
(***************************************************************************)
EXTENDS Integers, Sequences, FiniteSets, TLC

VARIABLES pc, op, arg, res

vars == <<pc, op, arg, res>>

(***************************************************************************)
(* platform_32.rs: Limb = u32, HalfLimb = u16.                             *)
(***************************************************************************)
HALF_WIDTH == 16

WIDTH == 32

HALF == 65536

HALF_MAX == 65535

\* The value raised when an assertion of the code fails: evaluating it stops
\* the evaluation, as a panic stops the call.
Panic == CHOOSE x \in {} : TRUE

Pow2(k) == 2^k

Min(a, b) == IF a < b THEN a ELSE b

Max(a, b) == IF a < b THEN b ELSE a

\* The Limb with upper half hi and lower half lo.
Limb(hi, lo) == <<lo, hi>>

Lo(x) == x[1]

Hi(x) == x[2]

\* Limb::from of a value below 2^31.
LimbOf(n) == <<n % HALF, n \div HALF>>

ZERO == <<0, 0>>

ONE == <<1, 0>>

LIMB_MAX == <<HALF_MAX, HALF_MAX>>

IsZero(x) == x = ZERO

Odd(x) == Lo(x) % 2 = 1

Even(x) == Lo(x) % 2 = 0

\* Ordering of two limbs as u32 values.
LimbLt(x, y) == x[2] < y[2] \/ (x[2] = y[2] /\ x[1] < y[1])

\* !x
Not(x) == <<HALF_MAX - x[1], HALF_MAX - x[2]>>

\* The limb and the carry (or, negative, the borrow) of lower + HALF * upper.
Carried(lower, upper) ==
    <<(<<lower % HALF, (upper + (lower \div HALF)) % HALF>>),
      (upper + (lower \div HALF)) \div HALF>>

\* <<borrowing result, borrow>> from what Carried gives for a difference.
Borrowed(r) == <<r[1], -r[2]>>

\* x + y + carry_in as <<sum mod 2^32, carry_out>>, carries are 0 or 1.
AddCarry(x, y, c) == Carried(x[1] + y[1] + c, x[2] + y[2])

\* x - y - borrow_in as <<difference mod 2^32, borrow_out>>.
SubBorrow(x, y, b) == Borrowed(Carried(x[1] - y[1] - b, x[2] - y[2]))

WrappingAdd(x, y) == AddCarry(x, y, 0)[1]

WrappingSub(x, y) == SubBorrow(x, y, 0)[1]

WrappingNeg(x) == WrappingSub(ZERO, x)

\* The four bytes of a limb, lowest first.
Bytes(x) == <<x[1] % 256, x[1] \div 256, x[2] % 256, x[2] \div 256>>

\* Column k (k = 1..8) holds what x * y + a + c has at weight 256^(k - 1), x, a
\* and c given by their bytes and y by its halves.
MulColumns(x, y, a, c) ==
    <<x[1] * y[1] + a[1] + c[1],
      x[2] * y[1] + a[2] + c[2],
      x[3] * y[1] + x[1] * y[2] + a[3] + c[3],
      x[4] * y[1] + x[2] * y[2] + a[4] + c[4],
      x[3] * y[2],
      x[4] * y[2],
      0, 0>>

\* The base-256 digits of the number the columns hold.
RECURSIVE Digits(_, _, _, _)
Digits(columns, k, carry, acc) ==
    IF k > Len(columns) THEN acc
    ELSE Digits(columns, k + 1, (columns[k] + carry) \div 256,
                Append(acc, (columns[k] + carry) % 256))

\* <<upper limb, lower limb>> of eight base-256 digits.
DoubleLimb(d) ==
    <<(<<d[5] + 256 * d[6], d[7] + 256 * d[8]>>), (<<d[1] + 256 * d[2], d[3] + 256 * d[4]>>)>>

\* DoubleLimb::from(x) * DoubleLimb::from(y) + a + c as <<upper_half, lower_half>>;
\* it never overflows a DoubleLimb.
XMulYPlus(x, y, a, c) == DoubleLimb(Digits(MulColumns(Bytes(x), y, Bytes(a), Bytes(c)), 1, 0, <<>>))

\* DoubleLimb::from(x) * DoubleLimb::from(y) as <<upper_half, lower_half>>.
XMulYIsZZ(x, y) == XMulYPlus(x, y, ZERO, ZERO)

UpperHalf(x, y) == XMulYIsZZ(x, y)[1]

WrappingMul(x, y) == XMulYIsZZ(x, y)[2]

\* x >> k and x << k for 0 <= k < 32 (the bits shifted out are dropped).
Shr(x, k) ==
    IF k >= HALF_WIDTH
        THEN <<x[2] \div 2^(k - HALF_WIDTH), 0>>
        ELSE <<(x[1] \div 2^k) + (x[2] % 2^k) * 2^(HALF_WIDTH - k), x[2] \div 2^k>>

Shl(x, k) ==
    IF k >= HALF_WIDTH
        THEN <<0, (x[1] * 2^(k - HALF_WIDTH)) % HALF>>
        ELSE <<(x[1] % 2^(HALF_WIDTH - k)) * 2^k,
               (x[2] % 2^(HALF_WIDTH - k)) * 2^k + (x[1] \div 2^(HALF_WIDTH - k))>>

\* x | y for limbs with no bit in common.
Or(x, y) == <<x[1] + y[1], x[2] + y[2]>>

RECURSIVE HalfTrailingZeros(_)
HalfTrailingZeros(h) == IF h % 2 = 1 THEN 0 ELSE 1 + HalfTrailingZeros(h \div 2)

\* TrailingZeros::trailing_zeros of a nonzero limb.
TrailingZeros(x) ==
    IF x[1] # 0 THEN HalfTrailingZeros(x[1]) ELSE HALF_WIDTH + HalfTrailingZeros(x[2])

(***************************************************************************)
(* Limb slices.  The add / subtract / shift / multiply primitives are the  *)
(* library's given collaborators (natural::arithmetic::{add, sub, shr,     *)
(* shl, mul, add_mul, sub_mul}); each is modelled by its contract, as the  *)
(* value it writes and the carry, borrow or bits it returns.  The callers  *)
(* below place the written value where the code places it.                 *)
(***************************************************************************)
\* s[a..b]
Slice(s, a, b) == SubSeq(s, a + 1, b)

\* s[a..]
From(s, a) == SubSeq(s, a + 1, Len(s))

\* buf with buf[off..off + s.len()] overwritten by s.
Put(buf, off, s) ==
    IF off + Len(s) > Len(buf) THEN Panic
    ELSE SubSeq(buf, 1, off) \o SubSeq(s, 1, Len(s)) \o SubSeq(buf, off + Len(s) + 1, Len(buf))

\* buf with buf[i] = x.
Set(buf, i, x) == Put(buf, i, <<x>>)

Zeros(n) == [i \in 1..n |-> ZERO]

Iverson(b) == IF b THEN 1 ELSE 0

\* Program order: the steps are carried out, in order, before what follows them.
Do(steps, then) == IF steps = steps THEN then ELSE then

slice_test_zero(xs) == \A i \in 1..Len(xs) : xs[i] = ZERO

\* The number of zero limbs at the least-significant end.
RECURSIVE slice_leading_zeros(_)
slice_leading_zeros(xs) ==
    IF xs = <<>> \/ Head(xs) # ZERO THEN 0 ELSE 1 + slice_leading_zeros(Tail(xs))

\* xs + ys + c from limb i on, acc the limbs below: <<sum, carry>>.
RECURSIVE AddLoop(_, _, _, _, _)
RECURSIVE AddLoopNext(_, _, _, _, _)
AddLoop(xs, ys, i, c, acc) ==
    IF i > Len(xs) THEN <<acc, c = 1>>
    ELSE AddLoopNext(xs, ys, i, acc, AddCarry(xs[i], ys[i], c))

AddLoopNext(xs, ys, i, acc, r) == Do(r, AddLoop(xs, ys, i + 1, r[2], Append(acc, r[1])))

\* xs - ys - b from limb i on, acc the limbs below: <<difference, borrow>>.
RECURSIVE SubLoop(_, _, _, _, _)
RECURSIVE SubLoopNext(_, _, _, _, _)
SubLoop(xs, ys, i, b, acc) ==
    IF i > Len(xs) THEN <<acc, b = 1>>
    ELSE SubLoopNext(xs, ys, i, acc, SubBorrow(xs[i], ys[i], b))

SubLoopNext(xs, ys, i, acc, r) == Do(r, SubLoop(xs, ys, i + 1, r[2], Append(acc, r[1])))

\* xs + ys for xs.len() = ys.len(): <<sum, carry>>.
limbs_add_same_length_to_out(xs, ys) == AddLoop(xs, ys, 1, 0, <<>>)

\* xs - ys - borrow_in for xs.len() = ys.len(): <<difference, borrow>>.
_limbs_sub_same_length_with_borrow_in_to_out(xs, ys, borrow_in) ==
    SubLoop(xs, ys, 1, Iverson(borrow_in), <<>>)

limbs_sub_same_length_to_out(xs, ys) == SubLoop(xs, ys, 1, 0, <<>>)

\* xs + y for a limb y: <<sum, carry>>.
limbs_add_limb_to_out(xs, y) == AddLoop(xs, <<y>> \o Zeros(Len(xs) - 1), 1, 0, <<>>)

\* xs - y for a limb y: <<difference, borrow>>.
limbs_sub_limb_to_out(xs, y) ==
    IF xs = <<>> THEN <<xs, y # ZERO>>
    ELSE SubLoop(xs, <<y>> \o Zeros(Len(xs) - 1), 1, 0, <<>>)

\* xs + ys for xs.len() >= ys.len(): <<sum, carry>>, xs.len() limbs.
limbs_add_to_out(xs, ys) == AddLoop(xs, ys \o Zeros(Len(xs) - Len(ys)), 1, 0, <<>>)

\* xs - ys for xs.len() >= ys.len(): <<difference, borrow>>, xs.len() limbs.
limbs_sub_to_out(xs, ys) == SubLoop(xs, ys \o Zeros(Len(xs) - Len(ys)), 1, 0, <<>>)

\* Ordering of two slices of equal length as numbers.
RECURSIVE limbs_cmp_same_length(_, _)
limbs_cmp_same_length(xs, ys) ==
    IF xs = <<>> THEN "Equal"
    ELSE IF xs[Len(xs)] = ys[Len(xs)]
        THEN limbs_cmp_same_length(SubSeq(xs, 1, Len(xs) - 1), SubSeq(ys, 1, Len(xs) - 1))
    ELSE IF LimbLt(xs[Len(xs)], ys[Len(xs)]) THEN "Less" ELSE "Greater"

\* xs + ys * z + carry from limb i on, acc the limbs below:
\* <<low ys.len() limbs, carry limb>>.
RECURSIVE MulLimbLoop(_, _, _, _, _, _)
RECURSIVE MulLimbLoopNext(_, _, _, _, _, _)
MulLimbLoop(xs, ys, z, i, carry, acc) ==
    IF i > Len(ys) THEN <<acc, carry>>
    ELSE MulLimbLoopNext(xs, ys, z, i, acc, XMulYPlus(ys[i], z, xs[i], carry))

MulLimbLoopNext(xs, ys, z, i, acc, p) ==
    Do(p, MulLimbLoop(xs, ys, z, i + 1, p[1], Append(acc, p[2])))

\* xs += ys * z for xs.len() = ys.len(): <<xs, carry limb>>.
limbs_slice_add_mul_limb_same_length_in_place_left(xs, ys, z) ==
    MulLimbLoop(xs, ys, z, 1, ZERO, <<>>)

\* ys * z: <<low ys.len() limbs, carry limb>>.
limbs_mul_limb_to_out(ys, z) == MulLimbLoop(Zeros(Len(ys)), ys, z, 1, ZERO, <<>>)

\* The limb written and the borrow limb carried on, from p = ys[i] * z + borrow
\* and d = xs[i] - p's lower half.
SubMulLimb(p, d) == <<d[1], AddCarry(p[1], ZERO, d[2])[1]>>

\* xs - ys * z - borrow from limb i on, acc the limbs below:
\* <<low ys.len() limbs, borrow limb>>.
RECURSIVE SubMulLimbLoop(_, _, _, _, _, _)
RECURSIVE SubMulLimbLoopNext(_, _, _, _, _, _)
RECURSIVE SubMulLimbLoopLast(_, _, _, _, _, _)
SubMulLimbLoop(xs, ys, z, i, borrow, acc) ==
    IF i > Len(ys) THEN <<acc, borrow>>
    ELSE SubMulLimbLoopNext(xs, ys, z, i, acc, XMulYPlus(ys[i], z, ZERO, borrow))

SubMulLimbLoopNext(xs, ys, z, i, acc, p) ==
    SubMulLimbLoopLast(xs, ys, z, i, acc, SubMulLimb(p, SubBorrow(xs[i], p[2], 0)))

SubMulLimbLoopLast(xs, ys, z, i, acc, r) ==
    Do(r, SubMulLimbLoop(xs, ys, z, i + 1, r[2], Append(acc, r[1])))

\* xs -= ys * z for xs.len() = ys.len(): <<xs, borrow limb>>.
limbs_sub_mul_limb_same_length_in_place_left(xs, ys, z) ==
    SubMulLimbLoop(xs, ys, z, 1, ZERO, <<>>)

\* xs >> bits for 0 < bits < 32: <<shifted, the bits shifted out, at the top of a limb>>.
limbs_shr_to_out(xs, bits) ==
    <<[i \in 1..Len(xs) |->
          Or(Shr(xs[i], bits),
             IF i < Len(xs) THEN Shl(xs[i + 1], WIDTH - bits) ELSE ZERO)],
      Shl(xs[1], WIDTH - bits)>>

\* xs << bits for 0 < bits < 32: <<shifted, the bits shifted out>>.
limbs_shl_to_out(xs, bits) ==
    <<[i \in 1..Len(xs) |->
          Or(Shl(xs[i], bits), IF i > 1 THEN Shr(xs[i - 1], WIDTH - bits) ELSE ZERO)],
      Shr(xs[Len(xs)], WIDTH - bits)>>

\* acc with the row acc[j - 1..j - 1 + xs.len()] + xs * ys[j] put back, its carry
\* limb above it.
MulRow(acc, n, j, row) ==
    SubSeq(acc, 1, j - 1) \o row[1] \o <<row[2]>> \o SubSeq(acc, j + n + 1, Len(acc))

RECURSIVE MulRows(_, _, _, _)
RECURSIVE MulRowsNext(_, _, _, _)
MulRows(acc, xs, ys, j) ==
    IF j > Len(ys) THEN acc
    ELSE MulRowsNext(MulRow(acc, Len(xs), j,
                            MulLimbLoop(SubSeq(acc, j, j + Len(xs) - 1), xs, ys[j], 1, ZERO,
                                        <<>>)),
                     xs, ys, j)

MulRowsNext(acc, xs, ys, j) == Do(acc, MulRows(acc, xs, ys, j + 1))

\* The full product xs * ys, xs.len() + ys.len() limbs (either operand may be longer).
limbs_mul_to_out(xs, ys) == MulRows(Zeros(Len(xs) + Len(ys)), xs, ys, 1)

\* The lowest n limbs of xs * ys for xs.len() = ys.len() = n.
limbs_mul_low_same_length(xs, ys) == SubSeq(limbs_mul_to_out(xs, ys), 1, Len(xs))

\* -xs modulo 2^(32 * xs.len()).
limbs_twos_complement_in_place(xs) == SubLoop(Zeros(Len(xs)), xs, 1, 0, <<>>)[1]

(***************************************************************************)
(* div_exact.rs: the single-limb inverse.                                  *)
(***************************************************************************)
INVERT_LIMB_TABLE_LOG_SIZE == 7

INVERT_LIMB_TABLE ==
    << 1, 171, 205, 183, 57, 163, 197, 239, 241, 27, 61, 167, 41, 19, 53, 223,
       225, 139, 173, 151, 25, 131, 165, 207, 209, 251, 29, 135, 9, 243, 21, 191,
       193, 107, 141, 119, 249, 99, 133, 175, 177, 219, 253, 103, 233, 211, 245, 159,
       161, 75, 109, 87, 217, 67, 101, 143, 145, 187, 221, 71, 201, 179, 213, 127,
       129, 43, 77, 55, 185, 35, 69, 111, 113, 155, 189, 39, 169, 147, 181, 95,
       97, 11, 45, 23, 153, 3, 37, 79, 81, 123, 157, 7, 137, 115, 149, 63,
       65, 235, 13, 247, 121, 227, 5, 47, 49, 91, 125, 231, 105, 83, 117, 31,
       33, 203, 237, 215, 89, 195, 229, 15, 17, 59, 93, 199, 73, 51, 85, 255 >>

\* One Newton doubling: inv <- (inv << 1) - inv * inv * x  (mod 2^32).
NewtonStep(inv, x) ==
    WrappingSub(Shl(inv, 1), WrappingMul(WrappingMul(inv, inv), x))

\* Limb::from(INVERT_LIMB_TABLE[(x >> 1).mod_power_of_two(INVERT_LIMB_TABLE_LOG_SIZE)])
InvertLimbTableEntry(x) ==
    LimbOf(INVERT_LIMB_TABLE[(Shr(x, 1)[1] % 2^INVERT_LIMB_TABLE_LOG_SIZE) + 1])

\* The table entry after one doubling only: exact to 16 bits, not to 32.
limbs_modular_invert_limb_one_doubling(x) == NewtonStep(InvertLimbTableEntry(x), x)

\* limbs_modular_invert_limb for an odd x (32_bit_limbs: two doublings).
limbs_modular_invert_limb(x) == NewtonStep(NewtonStep(InvertLimbTableEntry(x), x), x)

(***************************************************************************)
(* div_exact.rs: exact division by one limb.  The loops collect the        *)
(* quotient limbs in acc, lowest first; the caller stores them in out.     *)
(***************************************************************************)
\* The loop of the even-divisor branch, at previous_n = ns[i - 1] (0-based).
RECURSIVE DivExactLimbEvenLoop(_, _, _, _, _, _, _)
RECURSIVE DivExactLimbEvenDiff(_, _, _, _, _, _, _)
RECURSIVE DivExactLimbEvenQ(_, _, _, _, _, _, _, _)
DivExactLimbEvenLoop(ns, shift, shifted_d, d_inv, i, upper_half, acc) ==
    IF i = Len(ns)
        THEN Append(acc, WrappingMul(WrappingSub(Shr(ns[i], shift), upper_half), d_inv))
        ELSE DivExactLimbEvenDiff(
                 ns, shift, shifted_d, d_inv, i, acc,
                 SubBorrow(Or(Shr(ns[i], shift), Shl(ns[i + 1], WIDTH - shift)),
                           upper_half, 0))

\* diff = shifted_n.overflowing_sub(upper_half)
DivExactLimbEvenDiff(ns, shift, shifted_d, d_inv, i, acc, diff) ==
    DivExactLimbEvenQ(ns, shift, shifted_d, d_inv, i, acc, diff[2],
                      WrappingMul(diff[1], d_inv))

DivExactLimbEvenQ(ns, shift, shifted_d, d_inv, i, acc, carry, q) ==
    Do(q, DivExactLimbEvenLoop(ns, shift, shifted_d, d_inv, i + 1,
                               AddCarry(UpperHalf(q, shifted_d), ZERO, carry)[1],
                               Append(acc, q)))

\* The loop of the odd-divisor branch, about to write out[i] from ns[i] (0-based).
RECURSIVE DivExactLimbOddLoop(_, _, _, _, _, _, _)
RECURSIVE DivExactLimbOddDiff(_, _, _, _, _, _)
RECURSIVE DivExactLimbOddQ(_, _, _, _, _, _, _)
DivExactLimbOddLoop(ns, d, d_inv, i, q, previous_carry, acc) ==
    IF i = Len(ns) THEN acc
    ELSE DivExactLimbOddDiff(
             ns, d, d_inv, i, acc,
             SubBorrow(ns[i + 1], AddCarry(UpperHalf(q, d), ZERO, previous_carry)[1], 0))

\* diff = n.overflowing_sub(upper_half)
DivExactLimbOddDiff(ns, d, d_inv, i, acc, diff) ==
    DivExactLimbOddQ(ns, d, d_inv, i, acc, diff[2], WrappingMul(diff[1], d_inv))

DivExactLimbOddQ(ns, d, d_inv, i, acc, carry, q) ==
    Do(q, DivExactLimbOddLoop(ns, d, d_inv, i + 1, q, carry, Append(acc, q)))

\* The even branch from shifted_d = d >> shift on.
DivExactLimbEven(ns, shift, shifted_d) ==
    DivExactLimbEvenLoop(ns, shift, shifted_d, limbs_modular_invert_limb(shifted_d), 1,
                         ZERO, <<>>)

\* The odd branch from q = ns_head.wrapping_mul(d_inv) on.
DivExactLimbOddFirst(ns, d, d_inv, q) == DivExactLimbOddLoop(ns, d, d_inv, 1, q, 0, <<q>>)

DivExactLimbOdd(ns, d, d_inv) == DivExactLimbOddFirst(ns, d, d_inv, WrappingMul(ns[1], d_inv))

\* _limbs_div_exact_limb_to_out_no_special_3, for d != 0 and ns nonempty.
_limbs_div_exact_limb_to_out_no_special_3(out, ns, d) ==
    Put(out, 0,
        IF Even(d)
            THEN DivExactLimbEven(ns, TrailingZeros(d), Shr(d, TrailingZeros(d)))
            ELSE DivExactLimbOdd(ns, d, limbs_modular_invert_limb(d)))

\* _limbs_div_exact_limb_in_place_no_special_3: the same recurrences, reading
\* each ns[i] before the limb it determines is stored over ns.
_limbs_div_exact_limb_in_place_no_special_3(ns, d) ==
    _limbs_div_exact_limb_to_out_no_special_3(ns, ns, d)

\* Limb::MAX / 3
MAX_OVER_3 == Limb(21845, 21845)

\* Division by a divisor d of Limb::MAX given as Limb::MAX / d, from
\* natural::arithmetic::div: <<quotient limbs, final carry>>.
RECURSIVE limbs_div_divisor_of_limb_max_with_carry_to_out(_, _, _, _, _)
RECURSIVE DivDivisorOfLimbMaxProduct(_, _, _, _, _, _)
RECURSIVE DivDivisorOfLimbMaxDiff(_, _, _, _, _, _)
limbs_div_divisor_of_limb_max_with_carry_to_out(ns, divisor, carry, i, acc) ==
    IF i = Len(ns) THEN <<acc, carry>>
    ELSE DivDivisorOfLimbMaxProduct(ns, divisor, carry, i, acc,
                                    XMulYIsZZ(ns[i + 1], divisor))

DivDivisorOfLimbMaxProduct(ns, divisor, carry, i, acc, p) ==
    DivDivisorOfLimbMaxDiff(ns, divisor, i, acc, p[1], SubBorrow(carry, p[2], 0))

DivDivisorOfLimbMaxDiff(ns, divisor, i, acc, upper, diff) ==
    Do(diff, limbs_div_divisor_of_limb_max_with_carry_to_out(
                 ns, divisor, SubBorrow(diff[1], upper, diff[2])[1], i + 1,
                 Append(acc, diff[1])))

\* out[..len] = the low limbs r[1] and the top limb, from r's carry r[2].
DivExact3Store(out, top, r) == Put(out, 0, Append(r[1], top))

\* The route of 3 with the carry out of the low limbs left out of the top limb.
limbs_div_exact_3_to_out_carry_dropped(out, ns) ==
    DivExact3Store(out, WrappingNeg(WrappingMul(ns[Len(ns)], MAX_OVER_3)),
                   limbs_div_divisor_of_limb_max_with_carry_to_out(
                       SubSeq(ns, 1, Len(ns) - 1), MAX_OVER_3, ZERO, 0, <<>>))

\* The top limb q.wrapping_sub(lower), q the carry of r.
DivExact3Top(out, ns_last, r) ==
    DivExact3Store(out, WrappingSub(r[2], WrappingMul(ns_last, MAX_OVER_3)), r)

\* limbs_div_exact_3_to_out, for ns nonempty.
limbs_div_exact_3_to_out(out, ns) ==
    DivExact3Top(out, ns[Len(ns)],
                 limbs_div_divisor_of_limb_max_with_carry_to_out(
                     SubSeq(ns, 1, Len(ns) - 1), MAX_OVER_3, ZERO, 0, <<>>))

\* limbs_div_exact_3_in_place
limbs_div_exact_3_in_place(ns) == limbs_div_exact_3_to_out(ns, ns)

limbs_div_exact_limb_to_out(out, ns, d) ==
    IF d = LimbOf(3) THEN limbs_div_exact_3_to_out(out, ns)
    ELSE _limbs_div_exact_limb_to_out_no_special_3(out, ns, d)

\* limbs_div_exact_limb: the quotient in a fresh vec![0; ns.len()].
limbs_div_exact_limb(ns, d) == limbs_div_exact_limb_to_out(Zeros(Len(ns)), ns, d)

limbs_div_exact_limb_in_place(ns, d) ==
    IF d = LimbOf(3) THEN limbs_div_exact_3_in_place(ns)
    ELSE _limbs_div_exact_limb_in_place_no_special_3(ns, d)

(***************************************************************************)
(* div_exact.rs: the size thresholds.  They come from the platform's       *)
(* tuning table; the model takes the smallest table that keeps every       *)
(* routine within its documented limits and still separates the three      *)
(* algorithms.                                                             *)
(***************************************************************************)
DC_BDIV_QR_THRESHOLD == 2

DC_BDIV_Q_THRESHOLD == 4

MU_BDIV_Q_THRESHOLD == 6

BINV_NEWTON_THRESHOLD == 6

MUL_TO_MULMOD_BNM1_FOR_2NXN_THRESHOLD == 3

MULMOD_BNM1_THRESHOLD == 4

(***************************************************************************)
(* div_exact.rs: schoolbook division modulo a power of 2^32.  d_inv is     *)
(* -(ds[0]^-1) mod 2^32.  A loop's state s is <<qs, ns>>, and each step of *)
(* a routine is handed, as its last arguments, what the step before it     *)
(* computed.                                                               *)
(***************************************************************************)
FloorHalf(n) == n \div 2

CeilingHalf(n) == n - (n \div 2)

\* for i in from..to: q = d_inv * ns[i]; ns[i..i + d_len] += ds * q, the carry
\* limb kept in ns[i]; qs[i] = !q.  <<qs, ns>>.
RECURSIVE ModDivModSchoolbookInner(_, _, _, _, _)
RECURSIVE ModDivModSchoolbookInnerQ(_, _, _, _, _, _)
RECURSIVE ModDivModSchoolbookInnerStore(_, _, _, _, _, _, _)
ModDivModSchoolbookInner(s, ds, d_inv, i, to) ==
    IF i >= to THEN s
    ELSE ModDivModSchoolbookInnerQ(s, ds, d_inv, i, to, WrappingMul(d_inv, s[2][i + 1]))

ModDivModSchoolbookInnerQ(s, ds, d_inv, i, to, q) ==
    Do(q,
        ModDivModSchoolbookInnerStore(
            s, ds, d_inv, i, to, q,
            limbs_slice_add_mul_limb_same_length_in_place_left(
                Slice(s[2], i, i + Len(ds)), ds, q)))

ModDivModSchoolbookInnerStore(s, ds, d_inv, i, to, q, r) ==
    Do(r, ModDivModSchoolbookInner(
              <<Set(s[1], i, Not(q)), Put(s[2], i, <<r[2]>> \o Tail(r[1]))>>,
              ds, d_inv, i + 1, to))

\* while q_len_s > d_len: <<qs, ns, highest_r, lowest_q, q_len_s>>.
RECURSIVE ModDivModSchoolbookOuter(_, _, _, _, _, _)
RECURSIVE ModDivModSchoolbookOuterAdd(_, _, _, _, _, _, _)
RECURSIVE ModDivModSchoolbookOuterStore(_, _, _, _, _, _, _, _, _)
ModDivModSchoolbookOuter(s, ds, d_inv, highest_r, lowest_q, q_len_s) ==
    IF q_len_s <= Len(ds) THEN <<s[1], s[2], highest_r, lowest_q, q_len_s>>
    ELSE ModDivModSchoolbookOuterAdd(
             ds, d_inv, highest_r, lowest_q, q_len_s,
             Len(s[2]) - Len(ds) - q_len_s,
             ModDivModSchoolbookInner(s, ds, d_inv, Len(s[2]) - Len(ds) - q_len_s,
                                      Len(s[2]) - q_len_s))

\* The sum of np_hi[..q_len_s] and np_lo, and qs[q_diff..n_len - q_len_s] + 1.
ModDivModSchoolbookOuterAdd(ds, d_inv, highest_r, lowest_q, q_len_s, q_diff, s) ==
    Do(s,
        ModDivModSchoolbookOuterStore(
            s, ds, d_inv, highest_r, lowest_q, q_len_s, q_diff,
            limbs_add_to_out(Slice(s[2], q_diff + Len(ds), q_diff + Len(ds) + q_len_s),
                             Slice(s[2], q_diff, q_diff + Len(ds))),
            limbs_add_limb_to_out(Slice(s[1], q_diff, Len(s[2]) - q_len_s), ONE)))

ModDivModSchoolbookOuterStore(s, ds, d_inv, highest_r, lowest_q, q_len_s, q_diff, sum, inc) ==
    Do(<<sum, inc>>,
       ModDivModSchoolbookOuter(
           <<IF lowest_q THEN Put(s[1], q_diff, inc[1]) ELSE s[1],
             Put(s[2], q_diff + Len(ds), sum[1])>>,
           ds, d_inv, highest_r \/ sum[2], lowest_q /\ inc[2], q_len_s - Len(ds)))

\* From carry = limbs_sub_same_length_in_place_left(&mut ns[q_len..], ds) on.
ModDivModSchoolbookSub(qs, ns, q_len, highest_r, sub) ==
    Do(sub,
        IF ~(sub[2] \/ ~highest_r) THEN Panic
        ELSE <<qs, Put(ns, q_len, sub[1]), sub[2] # highest_r>>)

\* From the last addition on: sum is np_hi[..q_len_s] + np_lo[..q_len_s] and
\* inc is qs[q_diff..] + 1.
ModDivModSchoolbookEnd(qs_full, s, ds, highest_r, lowest_q, q_diff, sum, inc) ==
    Do(<<sum, inc>>,
        IF sum[2] /\ highest_r THEN Panic
        ELSE IF lowest_q /\ inc[2]
            THEN IF sum[2] \/ highest_r THEN Panic
                 ELSE <<Put(qs_full, 0, Put(s[1], q_diff, inc[1])),
                        Put(s[2], q_diff + Len(ds), sum[1]), FALSE>>
        ELSE ModDivModSchoolbookSub(
                 Put(qs_full, 0, IF lowest_q THEN Put(s[1], q_diff, inc[1]) ELSE s[1]),
                 Put(s[2], q_diff + Len(ds), sum[1]), Len(s[2]) - Len(ds),
                 sum[2] \/ highest_r,
                 limbs_sub_same_length_to_out(
                     From(Put(s[2], q_diff + Len(ds), sum[1]), Len(s[2]) - Len(ds)), ds)))

\* After the last for loop, which left s.
ModDivModSchoolbookAdd(qs_full, ds, highest_r, lowest_q, q_len_s, q_diff, s) ==
    Do(s,
        ModDivModSchoolbookEnd(
            qs_full, s, ds, highest_r, lowest_q, q_diff,
            limbs_add_same_length_to_out(
                Slice(s[2], q_diff + Len(ds), q_diff + Len(ds) + q_len_s),
                Slice(s[2], q_diff, q_diff + q_len_s)),
            limbs_add_limb_to_out(From(s[1], q_diff), ONE)))

\* After the while loop, which left out.
ModDivModSchoolbookLast(qs_full, ds, d_inv, q_len, out) ==
    Do(out,
        ModDivModSchoolbookAdd(
            qs_full, ds, out[3], out[4], out[5], q_len - out[5],
            ModDivModSchoolbookInner(<<out[1], out[2]>>, ds, d_inv, q_len - out[5], q_len)))

\* _limbs_modular_div_mod_schoolbook: <<qs, ns, borrow>>; the quotient is
\* written to qs[..n_len - d_len] and the remainder left in ns[q_len..].
_limbs_modular_div_mod_schoolbook(qs_full, ns, ds, d_inv) ==
    IF ~(Len(ds) # 0 /\ Len(ns) > Len(ds) /\ Odd(ds[1])) THEN Panic
    ELSE ModDivModSchoolbookLast(
             qs_full, ds, d_inv, Len(ns) - Len(ds),
             ModDivModSchoolbookOuter(<<Slice(qs_full, 0, Len(ns) - Len(ds)), ns>>, ds,
                                      d_inv, FALSE, TRUE, Len(ns) - Len(ds)))

\* for i in 0..n_len - d_len: a full-width add-multiply, the carry added above.
RECURSIVE ModDivSchoolbookLoop1(_, _, _, _, _)
RECURSIVE ModDivSchoolbookLoop1Q(_, _, _, _, _, _)
RECURSIVE ModDivSchoolbookLoop1Store(_, _, _, _, _, _, _)
ModDivSchoolbookLoop1(s, ds, d_inv, i, diff) ==
    IF i >= diff THEN s
    ELSE ModDivSchoolbookLoop1Q(s, ds, d_inv, i, diff, WrappingMul(d_inv, s[2][i + 1]))

ModDivSchoolbookLoop1Q(s, ds, d_inv, i, diff, q) ==
    Do(q,
        ModDivSchoolbookLoop1Store(
            s, ds, d_inv, i, diff, q,
            limbs_slice_add_mul_limb_same_length_in_place_left(
                Slice(s[2], i, i + Len(ds)), ds, q)))

ModDivSchoolbookLoop1Store(s, ds, d_inv, i, diff, q, r) ==
    IF r[1][1] # ZERO THEN Panic
    ELSE Do(r, ModDivSchoolbookLoop1(
                   <<Set(s[1], i, Not(q)),
                     Put(s[2], i,
                         r[1] \o limbs_add_limb_to_out(From(s[2], i + Len(ds)), r[2])[1])>>,
                   ds, d_inv, i + 1, diff))

\* for i in n_len - d_len..n_len - 1: the add-multiply truncated at n_len.
RECURSIVE ModDivSchoolbookLoop2(_, _, _, _, _)
RECURSIVE ModDivSchoolbookLoop2Q(_, _, _, _, _, _)
RECURSIVE ModDivSchoolbookLoop2Store(_, _, _, _, _, _, _)
ModDivSchoolbookLoop2(s, ds, d_inv, i, last_index) ==
    IF i >= last_index THEN s
    ELSE ModDivSchoolbookLoop2Q(s, ds, d_inv, i, last_index,
                                WrappingMul(d_inv, s[2][i + 1]))

ModDivSchoolbookLoop2Q(s, ds, d_inv, i, last_index, q) ==
    Do(q,
        ModDivSchoolbookLoop2Store(
            s, ds, d_inv, i, last_index, q,
            limbs_slice_add_mul_limb_same_length_in_place_left(
                From(s[2], i), Slice(ds, 0, Len(s[2]) - i), q)))

ModDivSchoolbookLoop2Store(s, ds, d_inv, i, last_index, q, r) ==
    IF r[1][1] # ZERO THEN Panic
    ELSE Do(r, ModDivSchoolbookLoop2(<<Set(s[1], i, Not(q)), Put(s[2], i, r[1])>>,
                                     ds, d_inv, i + 1, last_index))

\* The final add of 1 left out: the complemented limbs as they were stored.
ModDivSchoolbookLastComplemented(qs_full, d_inv, last_index, s) ==
    Do(s,
        <<Put(qs_full, 0,
              Set(s[1], last_index, Not(WrappingMul(d_inv, s[2][last_index + 1])))),
          s[2]>>)

\* qs[last_index] = !d_inv.wrapping_mul(ns[last_index]); qs += 1.
ModDivSchoolbookLast(qs_full, d_inv, last_index, s) ==
    Do(s,
        <<Put(qs_full, 0,
              limbs_add_limb_to_out(
                  Set(s[1], last_index, Not(WrappingMul(d_inv, s[2][last_index + 1]))),
                  ONE)[1]),
          s[2]>>)

\* _limbs_modular_div_schoolbook: <<qs, ns>>; qs[..n_len] is the quotient
\* of ns by ds modulo 2^(32 * n_len).
_limbs_modular_div_schoolbook(qs_full, ns, ds, d_inv) ==
    IF ~(Len(ds) # 0 /\ Len(ns) >= Len(ds) /\ Odd(ds[1])) THEN Panic
    ELSE ModDivSchoolbookLast(
             qs_full, d_inv, Len(ns) - 1,
             ModDivSchoolbookLoop2(
                 ModDivSchoolbookLoop1(<<Slice(qs_full, 0, Len(ns)), ns>>, ds, d_inv, 0,
                                       Len(ns) - Len(ds)),
                 ds, d_inv, Len(ns) - Len(ds), Len(ns) - 1))

(***************************************************************************)
(* div_exact.rs: divide-and-conquer division modulo a power of 2^32.  The  *)
(* scratch slices are written before they are read and are not part of a   *)
(* result.                                                                 *)
(***************************************************************************)
RECURSIVE _limbs_modular_div_mod_divide_and_conquer_helper(_, _, _, _)
RECURSIVE ModDivModDCLower(_, _, _, _, _)
RECURSIVE ModDivModDCUpper(_, _, _, _, _, _)
RECURSIVE ModDivModDCUpperDone(_, _, _, _, _, _)
RECURSIVE ModDivModDCEnd(_, _, _, _, _, _)

\* <<qs, ns, borrow>> with ns[..r[2].len()] as the schoolbook division left it.
ModDivModBlockStore(ns, r) ==
    Do(r,
        <<r[1], Put(ns, 0, r[2]), r[3]>>)

\* _limbs_modular_div_mod_schoolbook on ns[..2 * ds.len()] when ds is shorter than
\* DC_BDIV_QR_THRESHOLD, else the divide-and-conquer helper: <<qs, ns, carry>>.
ModDivModBlock(qs, ns, ds, d_inv) ==
    IF Len(ds) < DC_BDIV_QR_THRESHOLD
        THEN ModDivModBlockStore(
                 ns, _limbs_modular_div_mod_schoolbook(qs, Slice(ns, 0, 2 * Len(ds)), ds,
                                                       d_inv))
        ELSE _limbs_modular_div_mod_divide_and_conquer_helper(qs, ns, ds, d_inv)

\* inc is scratch[at..] + 1, which must not carry.
AddCarryAtStore(scratch, at, inc) ==
    Do(inc,
        IF inc[2] THEN Panic ELSE Put(scratch, at, inc[1]))

\* scratch after "if carry { assert!(!limbs_slice_add_limb_in_place(&mut
\* scratch[at..], 1)); }".
AddCarryAt(scratch, at, carry) ==
    IF ~carry THEN scratch
    ELSE AddCarryAtStore(scratch, at, limbs_add_limb_to_out(From(scratch, at), ONE))

\* _limbs_modular_div_mod_divide_and_conquer_helper: <<qs, ns, borrow>>.
_limbs_modular_div_mod_divide_and_conquer_helper(qs, ns_full, ds, d_inv) ==
    ModDivModDCLower(
        ns_full, ds, d_inv, FloorHalf(Len(ds)),
        ModDivModBlock(qs, Slice(ns_full, 0, 2 * Len(ds)),
                       Slice(ds, 0, FloorHalf(Len(ds))), d_inv))

\* After the lower block b1 = <<qs, ns, carry>>: scratch = ds_hi * qs_lo (+ carry
\* above lo), highest_r the borrow of ns[lo..] -= scratch.
ModDivModDCLower(ns_full, ds, d_inv, lo, b1) ==
    Do(b1,
        ModDivModDCUpper(
            ns_full, ds, d_inv, lo, b1,
            limbs_sub_to_out(
                From(b1[2], lo),
                AddCarryAt(limbs_mul_to_out(From(ds, lo), Slice(b1[1], 0, lo)), lo, b1[3]))))

\* The upper block, on qs_hi and ns[lo..] = sub1[1].
ModDivModDCUpper(ns_full, ds, d_inv, lo, b1, sub1) ==
    Do(sub1,
        ModDivModDCUpperDone(
            ns_full, ds, lo, b1, sub1[2],
            ModDivModBlock(From(b1[1], lo), sub1[1], Slice(ds, 0, Len(ds) - lo), d_inv)))

\* After the upper block b2: scratch = qs_hi[..hi] * ds_hi (+ carry above hi),
\* subtracted from ns[hi..].
ModDivModDCUpperDone(ns_full, ds, lo, b1, highest_r, b2) ==
    Do(b2,
        ModDivModDCEnd(
            ns_full, lo, b1, highest_r, b2,
            limbs_sub_same_length_to_out(
                From(b2[2], Len(ds) - lo),
                AddCarryAt(limbs_mul_to_out(Slice(b2[1], 0, Len(ds) - lo),
                                            From(ds, Len(ds) - lo)),
                           Len(ds) - lo, b2[3]))))

ModDivModDCEnd(ns_full, lo, b1, highest_r, b2, sub2) ==
    Do(sub2,
        IF sub2[2] /\ highest_r THEN Panic
        ELSE <<Put(b1[1], lo, b2[1]),
               Put(ns_full, 0,
                   Slice(b1[2], 0, lo) \o Slice(b2[2], 0, Len(b2[2]) - Len(sub2[1]))
                       \o sub2[1]),
               sub2[2] \/ highest_r>>)

\* The while loop of _limbs_modular_div_divide_and_conquer_helper and the
\* schoolbook call that ends it: <<qs, ns>>.  m = n - n_rem, lo = n_rem >> 1.
RECURSIVE ModDivDCHelperLoop(_, _, _, _)
RECURSIVE ModDivDCHelperLow(_, _, _, _, _)
RECURSIVE ModDivDCHelperMiddle(_, _, _, _, _, _)
RECURSIVE ModDivDCHelperTop(_, _, _, _, _, _, _)
RECURSIVE ModDivDCHelperNext(_, _, _, _, _, _)

\* qs[m..] and ns[m..n] as the schoolbook division left them.
ModDivDCHelperLast(s, m, r) ==
    Do(r,
        <<Put(s[1], m, r[1]), Put(s[2], m, r[2])>>)

ModDivDCHelperLoop(s, ds, d_inv, n_rem) ==
    IF n_rem >= DC_BDIV_Q_THRESHOLD
        THEN ModDivDCHelperLow(
                 s, ds, d_inv, n_rem,
                 _limbs_modular_div_mod_divide_and_conquer_helper(
                     From(s[1], Len(ds) - n_rem), From(s[2], Len(ds) - n_rem),
                     Slice(ds, 0, FloorHalf(n_rem)), d_inv))
        ELSE ModDivDCHelperLast(
                 s, Len(ds) - n_rem,
                 _limbs_modular_div_schoolbook(
                     From(s[1], Len(ds) - n_rem), Slice(s[2], Len(ds) - n_rem, Len(ds)),
                     Slice(ds, 0, n_rem), d_inv))

\* b = <<qs[m..], ns[m..], carry_1>>: ns[hi..n_rem] -= low half of
\* qs[..lo] * ds[hi..n_rem].
ModDivDCHelperLow(s, ds, d_inv, n_rem, b) ==
    Do(b,
        ModDivDCHelperMiddle(
            s, ds, d_inv, n_rem, b,
            Put(b[2], CeilingHalf(n_rem),
                limbs_sub_same_length_to_out(
                    Slice(b[2], CeilingHalf(n_rem), n_rem),
                    limbs_mul_low_same_length(Slice(b[1], 0, FloorHalf(n_rem)),
                                              Slice(ds, CeilingHalf(n_rem), n_rem)))[1])))

\* if lo < hi: carry_2 = ns[lo..lo << 1] -= qs * ds[lo].
ModDivDCHelperMiddle(s, ds, d_inv, n_rem, b, ns) ==
    Do(ns,
        IF FloorHalf(n_rem) < CeilingHalf(n_rem)
            THEN ModDivDCHelperTop(
                     s, ds, d_inv, n_rem, b, ns,
                     limbs_sub_mul_limb_same_length_in_place_left(
                         Slice(ns, FloorHalf(n_rem), 2 * FloorHalf(n_rem)),
                         Slice(b[1], 0, FloorHalf(n_rem)), ds[FloorHalf(n_rem) + 1]))
            ELSE ModDivDCHelperNext(s, ds, d_inv, n_rem, b[1], ns))

\* ns[n_rem - 1] -= carry_2, and 1 less if carry_1.
ModDivDCHelperTop(s, ds, d_inv, n_rem, b, ns, sm) ==
    Do(sm,
        ModDivDCHelperNext(
            s, ds, d_inv, n_rem, b[1],
            Set(Put(ns, FloorHalf(n_rem), sm[1]), n_rem - 1,
                WrappingSub(WrappingSub(ns[n_rem], sm[2]), IF b[3] THEN ONE ELSE ZERO))))

ModDivDCHelperNext(s, ds, d_inv, n_rem, qs, ns) ==
    Do(<<qs, ns>>,
       ModDivDCHelperLoop(<<Put(s[1], Len(ds) - n_rem, qs), Put(s[2], Len(ds) - n_rem, ns)>>,
                          ds, d_inv, CeilingHalf(n_rem)))

_limbs_modular_div_divide_and_conquer_helper(qs, ns, ds, d_inv) ==
    ModDivDCHelperLoop(<<qs, ns>>, ds, d_inv, Len(ds))

RECURSIVE ModDivDCLoop(_, _, _, _, _, _)
RECURSIVE ModDivDCLoopBlock(_, _, _, _, _)
RECURSIVE ModDivDCLoopStore(_, _, _, _, _, _)

\* One block of the loop, on qs[m..] and ns[m..].
ModDivDCLoopBlock(qs, ns, ds, d_inv, m) ==
    Do(ns,
        ModDivDCLoopStore(
            qs, ns, ds, d_inv, m,
            _limbs_modular_div_mod_divide_and_conquer_helper(From(qs, m), From(ns, m), ds,
                                                             d_inv)))

ModDivDCLoopStore(qs, ns, ds, d_inv, m, b) ==
    Do(b, ModDivDCLoop(Put(qs, m, b[1]), Put(ns, m, b[2]), ds, d_inv, b[3], m + Len(ds)))

\* The loop with the carry of one block not taken from the numerator of the next.
ModDivDCLoopCarryDropped(qs, ns, ds, d_inv, carry, m) ==
    IF m = Len(ns) - Len(ds) THEN <<qs, ns, carry>>
    ELSE ModDivDCLoopBlock(qs, ns, ds, d_inv, m)

\* while m != diff of _limbs_modular_div_divide_and_conquer: <<qs, ns, carry>>.
ModDivDCLoop(qs, ns, ds, d_inv, carry, m) ==
    IF m = Len(ns) - Len(ds) THEN <<qs, ns, carry>>
    ELSE ModDivDCLoopBlock(
             qs,
             IF carry
                 THEN Put(ns, m + Len(ds),
                          limbs_sub_limb_to_out(From(ns, m + Len(ds)), ONE)[1])
                 ELSE ns,
             ds, d_inv, m)

\* qs[diff..] and ns[diff..] as the last helper call left them.
ModDivDCLast(l, diff, last) ==
    Do(last,
        <<Put(l[1], diff, last[1]), Put(l[2], diff, last[2])>>)

\* After the while loop, which left l.
ModDivDCAfterLoop(ds, d_inv, diff, l) ==
    Do(l,
        ModDivDCLast(
            l, diff,
            _limbs_modular_div_divide_and_conquer_helper(From(l[1], diff), From(l[2], diff),
                                                         ds, d_inv)))

\* After the first block b of m limbs, m = n_len_mod_d_len.
ModDivDCFirst(ds, d_inv, m, b) ==
    Do(b,
        ModDivDCAfterLoop(
            ds, d_inv, Len(b[2]) - Len(ds),
            ModDivDCLoop(
                b[1],
                IF m # Len(ds)
                    THEN Put(b[2], m,
                             limbs_sub_to_out(
                                 From(b[2], m),
                                 AddCarryAt(limbs_mul_to_out(From(ds, m), Slice(b[1], 0, m)),
                                            m, b[3]))[1])
                    ELSE b[2],
                ds, d_inv, m = Len(ds) /\ b[3], m)))

\* n_len % d_len, or d_len if that is 0.
NLenModDLen(n_len, d_len) == IF n_len % d_len = 0 THEN d_len ELSE n_len % d_len

\* _limbs_modular_div_divide_and_conquer: <<qs, ns>>.
_limbs_modular_div_divide_and_conquer(qs, ns, ds, d_inv) ==
    IF ~(Len(ds) >= 2 /\ Len(ns) >= Len(ds) /\ Odd(ds[1])) THEN Panic
    ELSE IF Len(ns) > Len(ds)
        THEN ModDivDCFirst(
                 ds, d_inv, NLenModDLen(Len(ns), Len(ds)),
                 ModDivModBlock(qs, ns, Slice(ds, 0, NLenModDLen(Len(ns), Len(ds))),
                                d_inv))
    ELSE IF Len(ns) < DC_BDIV_Q_THRESHOLD
        THEN _limbs_modular_div_schoolbook(qs, ns, ds, d_inv)
    ELSE _limbs_modular_div_divide_and_conquer_helper(qs, ns, ds, d_inv)

(***************************************************************************)
(* Multiplication modulo B^n - 1 (natural::arithmetic::mul::mul_mod): the  *)
(* sizes it accepts, the scratch it asks for and its result, the product   *)
(* when that fits n limbs and else its low n limbs plus the limbs above    *)
(* them with the carry brought round (B^n - 1 stands for the class of 0).  *)
(***************************************************************************)
RoundUp(n, k) == k * ((n + k - 1) \div k)

_limbs_mul_mod_base_pow_n_minus_1_next_size(n) ==
    IF n < MULMOD_BNM1_THRESHOLD THEN n
    ELSE IF n <= 4 * (MULMOD_BNM1_THRESHOLD - 1) THEN RoundUp(n, 2)
    ELSE IF n <= 8 * (MULMOD_BNM1_THRESHOLD - 1) THEN RoundUp(n, 4)
    ELSE RoundUp(n, 8)

_limbs_mul_mod_base_pow_n_minus_1_scratch_len(n, xs_len, ys_len) ==
    n + 4 + (IF xs_len > FloorHalf(n)
                 THEN (IF ys_len > FloorHalf(n) THEN n ELSE FloorHalf(n))
                 ELSE 0)

\* sum = low n limbs of the product + the limbs above them: its carry comes round.
MulModCarry(sum) ==
    Do(sum,
        IF sum[2] THEN limbs_add_limb_to_out(sum[1], ONE)[1] ELSE sum[1])

\* p = xs * ys, reduced when it is longer than n limbs.
MulModFold(n, p) ==
    Do(p,
        IF Len(p) <= n THEN p
        ELSE MulModCarry(limbs_add_to_out(Slice(p, 0, n), From(p, n))))

\* The limbs written to out[..min(n, xs.len() + ys.len())], for
\* 0 < ys.len() <= xs.len() <= n.
_limbs_mul_mod_base_pow_n_minus_1(n, xs, ys) ==
    IF ~(0 < Len(ys) /\ Len(ys) <= Len(xs) /\ Len(xs) <= n) THEN Panic
    ELSE MulModFold(n, limbs_mul_to_out(xs, ys))

(***************************************************************************)
(* div_exact.rs: the inverse of a limb sequence modulo a power of 2^32.    *)
(***************************************************************************)
limbs_modular_invert_scratch_len(n) ==
    _limbs_mul_mod_base_pow_n_minus_1_next_size(n)
        + _limbs_mul_mod_base_pow_n_minus_1_scratch_len(
              _limbs_mul_mod_base_pow_n_minus_1_next_size(n), n, CeilingHalf(n))

\* _limbs_modular_invert_small: the quotient of scratch by ds is written to is.
_limbs_modular_invert_small(size, is, scratch, ds, d_inv) ==
    IF size < DC_BDIV_Q_THRESHOLD
        THEN _limbs_modular_div_schoolbook(is, scratch, ds, d_inv)[1]
        ELSE _limbs_modular_div_divide_and_conquer(is, scratch, ds, d_inv)[1]

RECURSIVE ModularInvertSizesRoundedDown(_, _)
\* The halving loop with size >>= 1 in place of the rounding to the ceiling.
ModularInvertSizesRoundedDown(size, sizes) ==
    IF size >= BINV_NEWTON_THRESHOLD
        THEN ModularInvertSizesRoundedDown(size \div 2, Append(sizes, size))
        ELSE <<sizes, size>>

RECURSIVE ModularInvertSizes(_, _)
\* while size >= BINV_NEWTON_THRESHOLD: <<sizes pushed, highest first; size left>>.
ModularInvertSizes(size, sizes) ==
    IF size >= BINV_NEWTON_THRESHOLD
        THEN ModularInvertSizes(CeilingHalf(size), Append(sizes, size))
        ELSE <<sizes, size>>

RECURSIVE ModularInvertStepsFrom(_, _, _, _)
\* for &size in sizes.iter().rev(), at index k of sizes: <<previous_size, size>> of
\* each iteration, in order.
ModularInvertStepsFrom(steps, sizes, k, previous_size) ==
    IF k = 0 THEN steps
    ELSE ModularInvertStepsFrom(Append(steps, <<previous_size, sizes[k]>>), sizes, k - 1,
                                sizes[k])

\* The precisions limbs_modular_invert goes through for ds.len() = d_len: the sizes of
\* its calls of _limbs_modular_invert_small and its Newton iterations.
ModularInvertSchedule(d_len) ==
    [bases |-> <<ModularInvertSizes(d_len, <<>>)[2]>>,
     steps |-> ModularInvertStepsFrom(<<>>, ModularInvertSizes(d_len, <<>>)[1],
                                      Len(ModularInvertSizes(d_len, <<>>)[1]),
                                      ModularInvertSizes(d_len, <<>>)[2])]

RECURSIVE ModularInvertNewton(_, _, _, _, _, _)
RECURSIVE ModularInvertNewtonProduct(_, _, _, _, _, _, _)
RECURSIVE ModularInvertNewtonStore(_, _, _, _, _)

\* for &size in sizes.iter().rev(), at index k of sizes: is after the iterations.
\* scratch_len is scratch.len(); what the iteration leaves in scratch is not read
\* by the next one.
ModularInvertNewton(is, ds, scratch_len, sizes, k, previous_size) ==
    IF k = 0 THEN is
    ELSE IF \/ _limbs_mul_mod_base_pow_n_minus_1_next_size(sizes[k]) > scratch_len
            \/ previous_size
                   < _limbs_mul_mod_base_pow_n_minus_1_next_size(sizes[k]) - sizes[k]
            \/ scratch_len - _limbs_mul_mod_base_pow_n_minus_1_next_size(sizes[k])
                   < previous_size
                         - (_limbs_mul_mod_base_pow_n_minus_1_next_size(sizes[k]) - sizes[k])
        THEN Panic
    ELSE ModularInvertNewtonProduct(
             is, ds, scratch_len, sizes, k, previous_size,
             _limbs_mul_mod_base_pow_n_minus_1(
                 _limbs_mul_mod_base_pow_n_minus_1_next_size(sizes[k]),
                 Slice(ds, 0, sizes[k]), Slice(is, 0, previous_size)))

\* prod is scratch_lo[..]: is[previous_size..size] <- -(is_lo[..diff] *
\* scratch[previous_size..size]).
ModularInvertNewtonProduct(is, ds, scratch_len, sizes, k, previous_size, prod) ==
    Do(prod,
        ModularInvertNewtonStore(
            ds, scratch_len, sizes, k,
            Put(is, previous_size,
                limbs_twos_complement_in_place(
                    limbs_mul_low_same_length(Slice(is, 0, sizes[k] - previous_size),
                                              Slice(prod, previous_size, sizes[k])))))) 

ModularInvertNewtonStore(ds, scratch_len, sizes, k, is) ==
    Do(is,
        ModularInvertNewton(is, ds, scratch_len, sizes, k - 1, sizes[k]))

\* scratch_lo = 1 divided by ds[..size], size the precision left by the halvings.
ModularInvertBase(is, ds, size) ==
    _limbs_modular_invert_small(size, is, Set(Zeros(size), 0, ONE), Slice(ds, 0, size),
                                WrappingNeg(limbs_modular_invert_limb(ds[1])))

\* The iterations from the base value, which has precision sched[2].
ModularInvertFromBase(ds, scratch_len, sched, base) ==
    Do(base,
        ModularInvertNewton(base, ds, scratch_len, sched[1], Len(sched[1]), sched[2]))

\* sched = <<sizes, size>> as the halving loop left them.
ModularInvertScheduled(is, ds, scratch_len, sched) ==
    IF sched[2] > scratch_len THEN Panic
    ELSE ModularInvertFromBase(ds, scratch_len, sched, ModularInvertBase(is, ds, sched[2]))

\* The base value alone, the iterations that double its precision left out.
limbs_modular_invert_base_only(is, ds, scratch) ==
    ModularInvertBase(is, ds, ModularInvertSizes(Len(ds), <<>>)[2])

\* limbs_modular_invert: is after the call; is[..ds.len()] is the inverse of ds.
limbs_modular_invert(is, ds, scratch) ==
    ModularInvertScheduled(is, ds, Len(scratch), ModularInvertSizes(Len(ds), <<>>))

(***************************************************************************)
(* div_exact.rs: Barrett division modulo a power of 2^32.  The scratch     *)
(* slice is split as the code splits it, into is, rs and the product area. *)
(***************************************************************************)
\* floor(n_len / ceil(n_len / d_len)) in place of the ceiling; at least 1.
BarrettGreaterILenRoundedDown(n_len, d_len) ==
    Max(1, n_len \div ((n_len - 1) \div d_len + 1))

\* i_len of the n_len > d_len branch: ceil(n_len / ceil(n_len / d_len)).
BarrettGreaterILen(n_len, d_len) == (n_len - 1) \div ((n_len - 1) \div d_len + 1) + 1

\* i_len + max(mul_len, invert_scratch_len), len the length of the multiplied
\* divisor.
BarrettScratchLen(i_len, len, rs_len) ==
    i_len
        + Max(IF i_len < MUL_TO_MULMOD_BNM1_FOR_2NXN_THRESHOLD
                  THEN rs_len + len + i_len
                  ELSE rs_len + _limbs_mul_mod_base_pow_n_minus_1_next_size(len)
                           + _limbs_mul_mod_base_pow_n_minus_1_scratch_len(
                                 _limbs_mul_mod_base_pow_n_minus_1_next_size(len), len,
                                 i_len),
              limbs_modular_invert_scratch_len(i_len))

_limbs_modular_div_barrett_scratch_len(n_len, d_len) ==
    IF ~(DC_BDIV_Q_THRESHOLD < MU_BDIV_Q_THRESHOLD) THEN Panic
    ELSE IF n_len > d_len
        THEN BarrettScratchLen(BarrettGreaterILen(n_len, d_len), d_len, d_len)
    ELSE BarrettScratchLen(CeilingHalf(n_len), n_len, 0)

\* dec is buf[at..] - 1, which must not borrow.
DecrementFromStore(buf, at, dec) ==
    Do(dec,
        IF dec[2] THEN Panic ELSE Put(buf, at, dec[1]))

\* buf[at..] after limbs_sub_limb_in_place(&mut buf[at..], 1) under assert!(!..).
DecrementFrom(buf, at) ==
    DecrementFromStore(buf, at, limbs_sub_limb_to_out(From(buf, at), ONE))

\* sub = scratch_lo[..wrapped_len] - rs[..wrapped_len], stored above mul_size;
\* its borrow is taken from scratch[wrapped_len..].
BarrettGreaterProductRecover(s_1, mul_size, wrapped_len, sub) ==
    Do(sub,
        IF sub[2] THEN DecrementFrom(Put(s_1, mul_size, sub[1]), wrapped_len)
        ELSE Put(s_1, mul_size, sub[1]))

\* s_1 is scratch with the product modulo B^mul_size - 1 in it.
BarrettGreaterProductWrapped(rs, mul_size, wrapped_len, s_1) ==
    Do(s_1,
        IF wrapped_len <= 0 THEN s_1
        ELSE BarrettGreaterProductRecover(
                 s_1, mul_size, wrapped_len,
                 limbs_sub_same_length_to_out(Slice(s_1, 0, wrapped_len),
                                              Slice(rs, 0, wrapped_len))))

\* The product ds * qs_lo in scratch: in full, or modulo B^mul_size - 1 with
\* the wrapped limbs recovered from rs, whose low limbs the product repeats.
BarrettGreaterProduct(scratch, ds, qs_lo, rs) ==
    IF Len(qs_lo) < MUL_TO_MULMOD_BNM1_FOR_2NXN_THRESHOLD
        THEN Put(scratch, 0, limbs_mul_to_out(ds, qs_lo))
    ELSE IF _limbs_mul_mod_base_pow_n_minus_1_next_size(Len(ds)) > Len(scratch) THEN Panic
    ELSE BarrettGreaterProductWrapped(
             rs, _limbs_mul_mod_base_pow_n_minus_1_next_size(Len(ds)),
             Len(ds) + Len(qs_lo) - _limbs_mul_mod_base_pow_n_minus_1_next_size(Len(ds)),
             Put(scratch, 0,
                 _limbs_mul_mod_base_pow_n_minus_1(
                     _limbs_mul_mod_base_pow_n_minus_1_next_size(Len(ds)), ds, qs_lo)))

\* sub = rs_hi[..len] - scratch[i_len..d_len], written to rs_lo: a borrow is
\* kept in carry, or added to scratch[d_len..] if carry is taken.
BarrettGreaterFoldStore(rs, scratch, carry, sub) ==
    Do(sub,
        IF ~sub[2] THEN <<Put(rs, 0, sub[1]), scratch, carry>>
        ELSE IF ~carry THEN <<Put(rs, 0, sub[1]), scratch, TRUE>>
        ELSE <<Put(rs, 0, sub[1]), AddCarryAt(scratch, Len(rs), TRUE), carry>>)

\* "if d_len != i_len { ... }": <<rs, scratch, carry>>.
BarrettGreaterFold(rs, scratch, carry, i_len, len) ==
    Do(scratch,
        IF Len(rs) = i_len THEN <<rs, scratch, carry>>
        ELSE IF len > i_len THEN Panic
        ELSE BarrettGreaterFoldStore(
                 rs, scratch, carry,
                 limbs_sub_same_length_to_out(Slice(rs, i_len, i_len + len),
                                              Slice(scratch, i_len, Len(rs)))))

RECURSIVE BarrettGreaterLoop(_, _, _, _)
RECURSIVE BarrettGreaterLoopFold(_, _, _, _, _)
RECURSIVE BarrettGreaterLoopSub(_, _, _, _, _, _)
RECURSIVE BarrettGreaterLoopNext(_, _, _, _, _, _, _)

\* while n_len_s > i_len << 1, on st = <<qs, rs, scratch, carry, n_len_s>>, which
\* it returns.  The block of qs in hand starts at ns.len() - n_len_s.
BarrettGreaterLoop(st, ns, ds, is) ==
    Do(st,
        IF st[5] <= 2 * Len(is) THEN st
        ELSE BarrettGreaterLoopFold(
                 st, ns, ds, is,
                 BarrettGreaterFold(
                     st[2],
                     BarrettGreaterProduct(
                         st[3], ds,
                         Slice(st[1], Len(ns) - st[5], Len(ns) - st[5] + Len(is)), st[2]),
                     st[4], Len(is), Len(ds) - Len(is))))

\* fold = <<rs, scratch, carry>>: the next i_len limbs of ns, less
\* scratch[d_len..] and the carry.
BarrettGreaterLoopFold(st, ns, ds, is, fold) ==
    Do(fold,
        BarrettGreaterLoopSub(
            st, ns, ds, is, fold,
            _limbs_sub_same_length_with_borrow_in_to_out(
                Slice(ns, Len(ns) - st[5] + Len(ds), Len(ns) - st[5] + Len(ds) + Len(is)),
                Slice(fold[2], Len(ds), Len(ds) + Len(is)), fold[3])))

\* sub goes to rs[d_len - i_len..], its borrow is the carry.
BarrettGreaterLoopSub(st, ns, ds, is, fold, sub) ==
    Do(sub,
        BarrettGreaterLoopNext(st, ns, ds, is, fold[2], sub[2],
                               Put(fold[1], Len(ds) - Len(is), sub[1])))

\* The next block of qs is the low product of rs[..i_len] and is.
BarrettGreaterLoopNext(st, ns, ds, is, scratch, carry, rs) ==
    Do(rs,
        BarrettGreaterLoop(
            <<Put(st[1], Len(ns) - st[5] + Len(is),
                  limbs_mul_low_same_length(Slice(rs, 0, Len(is)), is)),
              rs, scratch, carry, st[5] - Len(is)>>,
            ns, ds, is))

\* The last block of qs, of n_len_s - i_len limbs.
BarrettGreaterLastStore(is, qs, at, limit, rs) ==
    Do(rs,
        Put(qs, at, limbs_mul_low_same_length(Slice(rs, 0, limit), Slice(is, 0, limit))))

\* fold = <<rs, scratch, carry>> after the last product.
BarrettGreaterLastFold(ns, ds, is, l, fold) ==
    Do(fold,
        BarrettGreaterLastStore(
            is, l[1], Len(ns) - l[5] + Len(is), l[5] - Len(is),
            Put(fold[1], Len(ds) - Len(is),
                _limbs_sub_same_length_with_borrow_in_to_out(
                    From(ns, Len(ns) - l[5] + Len(ds)), Slice(fold[2], Len(ds), l[5]),
                    fold[3])[1])))

\* After the loop, which left l = <<qs, rs, scratch, carry, n_len_s>>.
BarrettGreaterLast(ns, ds, is, l) ==
    Do(l,
        BarrettGreaterLastFold(
            ns, ds, is, l,
            BarrettGreaterFold(
                l[2],
                BarrettGreaterProduct(
                    l[3], ds, Slice(l[1], Len(ns) - l[5], Len(ns) - l[5] + Len(is)), l[2]),
                l[4], Len(is), Len(ds) - Len(is))))

\* is is the inverse of ds[..i_len], area the scratch above is and rs.
BarrettGreaterInverted(qs, ns, ds, area, is) ==
    Do(is,
        BarrettGreaterLast(
            ns, ds, is,
            BarrettGreaterLoop(
                <<Put(qs, 0, limbs_mul_low_same_length(Slice(ns, 0, Len(is)), is)),
                  Slice(ns, 0, Len(ds)), area, FALSE, Len(ns)>>,
                ns, ds, is)))

\* The scratch slice split at i_len: is, and what is above it.
BarrettGreaterSplit(qs, ns, ds, scratch, i_len) ==
    BarrettGreaterInverted(
        qs, ns, ds, From(scratch, i_len + Len(ds)),
        Slice(limbs_modular_invert(Slice(scratch, 0, i_len), Slice(ds, 0, i_len),
                                   From(scratch, i_len)),
              0, i_len))

\* _limbs_modular_div_barrett_greater: qs after the call.
_limbs_modular_div_barrett_greater(qs, ns, ds, scratch) ==
    BarrettGreaterSplit(qs, ns, ds, scratch, BarrettGreaterILen(Len(ns), Len(ds)))

\* s_lo = ns[i_len..] - scratch[i_len..n_len]: the high block of qs.
BarrettSameLengthLast(is, qs, diff, s_lo) ==
    Do(s_lo,
        Put(qs, Len(is),
            limbs_mul_low_same_length(Slice(s_lo, 0, diff), Slice(is, 0, diff))))

\* s_2 is the scratch area with the product ds * qs_lo in it.
BarrettSameLengthProductDone(ns, is, qs, s_2) ==
    Do(s_2,
        BarrettSameLengthLast(
            is, qs, Len(ns) - Len(is),
            limbs_sub_same_length_to_out(From(ns, Len(is)), Slice(s_2, Len(is), Len(ns)))[1]))

\* s_1 is the scratch area with the product modulo B^mul_size - 1 in it.
BarrettSameLengthProductWrapped(ns, wrapped_len, s_1) ==
    Do(s_1,
        IF wrapped_len > 0
               /\ limbs_cmp_same_length(Slice(s_1, 0, wrapped_len),
                                        Slice(ns, 0, wrapped_len)) = "Less"
            THEN DecrementFrom(s_1, wrapped_len)
            ELSE s_1)

\* The product ds * qs_lo in the scratch area.
BarrettSameLengthProduct(area, ns, ds, qs_lo) ==
    IF Len(qs_lo) < MUL_TO_MULMOD_BNM1_FOR_2NXN_THRESHOLD
        THEN Put(area, 0, limbs_mul_to_out(ds, qs_lo))
    ELSE IF _limbs_mul_mod_base_pow_n_minus_1_next_size(Len(ns)) > Len(area) THEN Panic
    ELSE BarrettSameLengthProductWrapped(
             ns,
             Len(ns) + Len(qs_lo) - _limbs_mul_mod_base_pow_n_minus_1_next_size(Len(ns)),
             Put(area, 0,
                 _limbs_mul_mod_base_pow_n_minus_1(
                     _limbs_mul_mod_base_pow_n_minus_1_next_size(Len(ns)), ds, qs_lo)))

\* qs has its low block, ns[..i_len] * is.
BarrettSameLengthLow(ns, ds, area, is, qs) ==
    Do(qs,
        BarrettSameLengthProductDone(
            ns, is, qs, BarrettSameLengthProduct(area, ns, ds, Slice(qs, 0, Len(is)))))

\* is is the inverse of ds[..i_len], area the scratch above it.
BarrettSameLengthInverted(qs, ns, ds, area, is) ==
    Do(is,
        BarrettSameLengthLow(
            ns, ds, area, is,
            Put(qs, 0, limbs_mul_low_same_length(Slice(ns, 0, Len(is)), is))))

BarrettSameLengthSplit(qs, ns, ds, scratch, i_len) ==
    BarrettSameLengthInverted(
        qs, ns, ds, From(scratch, i_len),
        Slice(limbs_modular_invert(Slice(scratch, 0, i_len), Slice(ds, 0, i_len),
                                   From(scratch, i_len)),
              0, i_len))

\* _limbs_modular_div_barrett_same_length: qs after the call.
_limbs_modular_div_barrett_same_length(qs, ns, ds, scratch) ==
    BarrettSameLengthSplit(qs, ns, ds, scratch, CeilingHalf(Len(ns)))

\* _limbs_modular_div_barrett: qs after the call; ns is only read.
_limbs_modular_div_barrett(qs, ns, ds, scratch) ==
    IF ~(Len(ds) >= 2 /\ Len(ns) >= Len(ds)) THEN Panic
    ELSE IF Len(ns) > Len(ds) THEN _limbs_modular_div_barrett_greater(qs, ns, ds, scratch)
    ELSE _limbs_modular_div_barrett_same_length(qs, ns, ds, scratch)

\* ns after step i of _limbs_modular_div_schoolbook, q = d_inv * ns[i], with
\* no assertion made: the add-multiply of the whole divisor and the carry
\* added above it while i < n_len - d_len, the truncated add-multiply after.
SchoolbookStepAdded(ns, ds, i, r) ==
    IF i < Len(ns) - Len(ds)
        THEN Put(ns, i, r[1] \o limbs_add_limb_to_out(From(ns, i + Len(ds)), r[2])[1])
        ELSE Put(ns, i, r[1])

SchoolbookStep(ns, ds, d_inv, i) ==
    SchoolbookStepAdded(
        ns, ds, i,
        limbs_slice_add_mul_limb_same_length_in_place_left(
            Slice(ns, i, Min(i + Len(ds), Len(ns))), Slice(ds, 0, Min(Len(ds), Len(ns) - i)),
            WrappingMul(d_inv, ns[i + 1])))

RECURSIVE SchoolbookLowLimbsFrom(_, _, _, _)
\* ns[i] after step i, for every step from i to n_len - 2.
SchoolbookLowLimbsFrom(ns, ds, d_inv, i) ==
    IF i >= Len(ns) - 1 THEN <<>>
    ELSE <<SchoolbookStep(ns, ds, d_inv, i)[i + 1]>>
             \o SchoolbookLowLimbsFrom(SchoolbookStep(ns, ds, d_inv, i), ds, d_inv, i + 1)

(***************************************************************************)
(* div_exact.rs: the choice of algorithm and the four entry points.        *)
(***************************************************************************)
_limbs_modular_div_scratch_len(n_len, d_len) ==
    IF d_len < MU_BDIV_Q_THRESHOLD THEN 0
    ELSE _limbs_modular_div_barrett_scratch_len(n_len, d_len)

\* The two algorithms that take d_inv = -1 / ds[0] and overwrite ns: <<qs, ns>>.
ModularDivSmall(qs, ns, ds, d_inv) ==
    IF Len(ds) < DC_BDIV_Q_THRESHOLD
        THEN _limbs_modular_div_schoolbook(qs, ns, ds, d_inv)
        ELSE _limbs_modular_div_divide_and_conquer(qs, ns, ds, d_inv)

\* The division made on a cleared output slice, every limb of qs written.
_limbs_modular_div_clearing(qs, ns, ds, scratch) ==
    IF Len(ds) < MU_BDIV_Q_THRESHOLD
        THEN ModularDivSmall(Zeros(Len(qs)), ns, ds,
                             WrappingNeg(limbs_modular_invert_limb(ds[1])))
        ELSE <<_limbs_modular_div_barrett(Zeros(Len(qs)), ns, ds, scratch), ns>>

\* _limbs_modular_div: <<qs, ns>>; Barrett division only reads ns.
_limbs_modular_div(qs, ns, ds, scratch) ==
    IF Len(ds) < MU_BDIV_Q_THRESHOLD
        THEN ModularDivSmall(qs, ns, ds, WrappingNeg(limbs_modular_invert_limb(ds[1])))
        ELSE <<_limbs_modular_div_barrett(qs, ns, ds, scratch), ns>>

_limbs_modular_div_ref_scratch_len(n_len, d_len) ==
    IF d_len < MU_BDIV_Q_THRESHOLD THEN n_len
    ELSE _limbs_modular_div_barrett_scratch_len(n_len, d_len)

\* The numerator not copied: the division is of the scratch slice as it was.
_limbs_modular_div_ref_without_copy(qs, ns, ds, scratch) ==
    IF Len(ds) < MU_BDIV_Q_THRESHOLD
        THEN ModularDivSmall(qs, Slice(scratch, 0, Len(ns)), ds,
                             WrappingNeg(limbs_modular_invert_limb(ds[1])))[1]
        ELSE _limbs_modular_div_barrett(qs, ns, ds, scratch)

\* _limbs_modular_div_ref: qs; ns is copied to scratch[..n_len] for the first
\* two algorithms.
_limbs_modular_div_ref(qs, ns, ds, scratch) ==
    IF Len(ds) < MU_BDIV_Q_THRESHOLD
        THEN ModularDivSmall(qs, Slice(Put(scratch, 0, ns), 0, Len(ns)), ds,
                             WrappingNeg(limbs_modular_invert_limb(ds[1])))[1]
        ELSE _limbs_modular_div_barrett(qs, ns, ds, scratch)

\* The opening assertions without the last one: low limbs of ns are not looked at.
DivExactFailedAssertionUnchecked(ns, ds) ==
    IF Len(ds) = 0 THEN "d_len != 0"
    ELSE IF Len(ns) < Len(ds) THEN "n_len >= d_len"
    ELSE IF ds[Len(ds)] = ZERO THEN "ds[d_len - 1] != 0"
    ELSE "none"

\* The opening assertions without the third one: any top limb of ds passes.
DivExactFailedAssertionAnyTopLimb(ns, ds) ==
    IF Len(ds) = 0 THEN "d_len != 0"
    ELSE IF Len(ns) < Len(ds) THEN "n_len >= d_len"
    ELSE IF ~slice_test_zero(Slice(ns, 0, slice_leading_zeros(ds))) THEN "division not exact"
    ELSE "none"

\* The assertions that open each of the four entry points, in their order: the
\* one that fails, "none" if none does.
DivExactFailedAssertion(ns, ds) ==
    IF Len(ds) = 0 THEN "d_len != 0"
    ELSE IF Len(ns) < Len(ds) THEN "n_len >= d_len"
    ELSE IF ds[Len(ds)] = ZERO THEN "ds[d_len - 1] != 0"
    ELSE IF ~slice_test_zero(Slice(ns, 0, slice_leading_zeros(ds))) THEN "division not exact"
    ELSE "none"

\* The assertions that open each of the four entry points.
DivExactAsserts(ns, ds) == DivExactFailedAssertion(ns, ds) = "none"

\* The shift stopped one limb early: xs[len - 1] misses the bits of xs[len].
ShrInPlaceOneLimbShort(xs, len, shift) ==
    Put(xs, 0, limbs_shr_to_out(Slice(xs, 0, len - 1), shift)[1])

\* xs with xs[..len] shifted right in place.
ShrInPlace(xs, len, shift) == Put(xs, 0, limbs_shr_to_out(Slice(xs, 0, len), shift)[1])

\* q_len = n_len - d_len + 1, of the operands above the zero limbs of ds.
QLen(ns, ds) == Len(ns) - Len(ds) + 1

\* "limbs_slice_shr_in_place(&mut ds[..ds_limit_len], shift)" with one limb fewer than
\* the quotient needs when d_len > q_len.
DsLimitLenWithoutNextLimb(ns, ds) ==
    IF Len(ds) > QLen(ns, ds) THEN QLen(ns, ds) ELSE Len(ds)

\* "if d_len > q_len { q_len_plus_1 } else { d_len }"
DsLimitLen(ns, ds) == IF Len(ds) > QLen(ns, ds) THEN QLen(ns, ds) + 1 ELSE Len(ds)

\* What limbs_div_exact_to_out hands to _limbs_modular_div, "&mut ns[..q_len]" and
\* "&ds[..d_len]", for ns and ds above the zero limbs of ds and ds.len() >= 2.
DivExactKernelOperands(ns, ds) ==
    [ns |-> Slice(IF TrailingZeros(ds[1]) # 0
                      THEN ShrInPlace(ns, QLen(ns, ds) + 1, TrailingZeros(ds[1]))
                      ELSE ns,
                  0, QLen(ns, ds)),
     ds |-> Slice(IF TrailingZeros(ds[1]) # 0
                      THEN ShrInPlace(ds, DsLimitLen(ns, ds), TrailingZeros(ds[1]))
                      ELSE ds,
                  0, Min(Len(ds), QLen(ns, ds)))]

\* What limbs_div_exact_to_out_ref_ref hands to _limbs_modular_div_ref, slices of
\* ns_scratch and ds_scratch if there was a shift.
DivExactRefRefKernelOperands(ns, ds) ==
    [ns |-> Slice(IF TrailingZeros(ds[1]) # 0
                      THEN limbs_shr_to_out(Slice(ns, 0, QLen(ns, ds) + 1),
                                            TrailingZeros(ds[1]))[1]
                      ELSE ns,
                  0, QLen(ns, ds)),
     ds |-> Slice(IF TrailingZeros(ds[1]) # 0
                      THEN limbs_shr_to_out(Slice(ds, 0, DsLimitLen(ns, ds)),
                                            TrailingZeros(ds[1]))[1]
                      ELSE ds,
                  0, Min(Len(ds), QLen(ns, ds)))]

\* r = <<qs, ns[..q_len]>> as _limbs_modular_div left them.
DivExactToOutStore(ns_in, ds_in, ns, ds, r) ==
    Do(r,
        <<r[1], Put(ns_in, Len(ns_in) - Len(ns), Put(ns, 0, r[2])),
          Put(ds_in, Len(ds_in) - Len(ds), ds)>>)

\* ns and ds are shifted; d_len = min(d_len, q_len).
DivExactToOutDivide(qs, ns_in, ds_in, q_len, d_len, ns, ds) ==
    Do(<<ns, ds>>,
        DivExactToOutStore(
            ns_in, ds_in, ns, ds,
            _limbs_modular_div(qs, Slice(ns, 0, q_len), Slice(ds, 0, d_len),
                               Zeros(_limbs_modular_div_scratch_len(q_len, d_len)))))

\* ns and ds are the operands above the zero limbs of ds.
DivExactToOutStripped(qs, ns_in, ds_in, ns, ds) ==
    IF Len(ds) = 1 THEN <<limbs_div_exact_limb_to_out(qs, ns, ds[1]), ns_in, ds_in>>
    ELSE DivExactToOutDivide(
             qs, ns_in, ds_in, QLen(ns, ds), Min(Len(ds), QLen(ns, ds)),
             IF TrailingZeros(ds[1]) # 0
                 THEN ShrInPlace(ns, QLen(ns, ds) + 1, TrailingZeros(ds[1]))
                 ELSE ns,
             IF TrailingZeros(ds[1]) # 0
                 THEN ShrInPlace(ds, DsLimitLen(ns, ds), TrailingZeros(ds[1]))
                 ELSE ds)

\* limbs_div_exact_to_out: <<qs, ns, ds>>, all three as the call leaves them.
limbs_div_exact_to_out(qs, ns_in, ds_in) ==
    IF ~DivExactAsserts(ns_in, ds_in) THEN Panic
    ELSE DivExactToOutStripped(qs, ns_in, ds_in, From(ns_in, slice_leading_zeros(ds_in)),
                               From(ds_in, slice_leading_zeros(ds_in)))

DivExactValRefStore(ns_in, ns, r) ==
    Do(r,
        <<r[1], Put(ns_in, Len(ns_in) - Len(ns), Put(ns, 0, r[2]))>>)

\* ns is shifted in place, ds is ds_scratch if there was a shift.
DivExactValRefDivide(qs, ns_in, q_len, d_len, ns, ds) ==
    Do(<<ns, ds>>,
        DivExactValRefStore(
            ns_in, ns,
            _limbs_modular_div(qs, Slice(ns, 0, q_len), Slice(ds, 0, d_len),
                               Zeros(_limbs_modular_div_scratch_len(q_len, d_len)))))

DivExactValRefStripped(qs, ns_in, ns, ds) ==
    IF Len(ds) = 1 THEN <<limbs_div_exact_limb_to_out(qs, ns, ds[1]), ns_in>>
    ELSE DivExactValRefDivide(
             qs, ns_in, QLen(ns, ds), Min(Len(ds), QLen(ns, ds)),
             IF TrailingZeros(ds[1]) # 0
                 THEN ShrInPlace(ns, QLen(ns, ds) + 1, TrailingZeros(ds[1]))
                 ELSE ns,
             IF TrailingZeros(ds[1]) # 0
                 THEN limbs_shr_to_out(Slice(ds, 0, DsLimitLen(ns, ds)),
                                       TrailingZeros(ds[1]))[1]
                 ELSE ds)

\* limbs_div_exact_to_out_val_ref: <<qs, ns>>; ds is only read.
limbs_div_exact_to_out_val_ref(qs, ns_in, ds_in) ==
    IF ~DivExactAsserts(ns_in, ds_in) THEN Panic
    ELSE DivExactValRefStripped(qs, ns_in, From(ns_in, slice_leading_zeros(ds_in)),
                                From(ds_in, slice_leading_zeros(ds_in)))

\* ds is shifted in place, ns is ns_scratch if there was a shift.
DivExactRefValDivide(qs, ds_in, q_len, d_len, ns, ds) ==
    Do(<<ns, ds>>,
        <<_limbs_modular_div_ref(qs, Slice(ns, 0, q_len), Slice(ds, 0, d_len),
                                 Zeros(_limbs_modular_div_ref_scratch_len(q_len, d_len))),
          Put(ds_in, Len(ds_in) - Len(ds), ds)>>)

DivExactRefValStripped(qs, ds_in, ns, ds) ==
    IF Len(ds) = 1 THEN <<limbs_div_exact_limb_to_out(qs, ns, ds[1]), ds_in>>
    ELSE DivExactRefValDivide(
             qs, ds_in, QLen(ns, ds), Min(Len(ds), QLen(ns, ds)),
             IF TrailingZeros(ds[1]) # 0
                 THEN limbs_shr_to_out(Slice(ns, 0, QLen(ns, ds) + 1),
                                       TrailingZeros(ds[1]))[1]
                 ELSE ns,
             IF TrailingZeros(ds[1]) # 0
                 THEN ShrInPlace(ds, DsLimitLen(ns, ds), TrailingZeros(ds[1]))
                 ELSE ds)

\* limbs_div_exact_to_out_ref_val: <<qs, ds>>; ns is only read.
limbs_div_exact_to_out_ref_val(qs, ns_in, ds_in) ==
    IF ~DivExactAsserts(ns_in, ds_in) THEN Panic
    ELSE DivExactRefValStripped(qs, ds_in, From(ns_in, slice_leading_zeros(ds_in)),
                                From(ds_in, slice_leading_zeros(ds_in)))

\* ns and ds are ns_scratch and ds_scratch if there was a shift.
DivExactRefRefDivide(qs, q_len, d_len, ns, ds) ==
    Do(<<ns, ds>>,
        _limbs_modular_div_ref(qs, Slice(ns, 0, q_len), Slice(ds, 0, d_len),
                               Zeros(_limbs_modular_div_ref_scratch_len(q_len, d_len))))

DivExactRefRefStripped(qs, ns, ds) ==
    IF Len(ds) = 1 THEN limbs_div_exact_limb_to_out(qs, ns, ds[1])
    ELSE DivExactRefRefDivide(
             qs, QLen(ns, ds), Min(Len(ds), QLen(ns, ds)),
             IF TrailingZeros(ds[1]) # 0
                 THEN limbs_shr_to_out(Slice(ns, 0, QLen(ns, ds) + 1),
                                       TrailingZeros(ds[1]))[1]
                 ELSE ns,
             IF TrailingZeros(ds[1]) # 0
                 THEN limbs_shr_to_out(Slice(ds, 0, DsLimitLen(ns, ds)),
                                       TrailingZeros(ds[1]))[1]
                 ELSE ds)

\* limbs_div_exact_to_out_ref_ref: qs; ns and ds are only read.
limbs_div_exact_to_out_ref_ref(qs, ns_in, ds_in) ==
    IF ~DivExactAsserts(ns_in, ds_in) THEN Panic
    ELSE DivExactRefRefStripped(qs, From(ns_in, slice_leading_zeros(ds_in)),
                                From(ds_in, slice_leading_zeros(ds_in)))

\* limbs_div_exact: the quotient in a fresh vec![0; ns.len() - ds.len() + 1].
limbs_div_exact(ns, ds) ==
    IF Len(ns) < Len(ds) THEN Panic
    ELSE limbs_div_exact_to_out_ref_ref(Zeros(Len(ns) - Len(ds) + 1), ns, ds)

(***************************************************************************)
(* In-place forms: what a primitive computed from buf[at..] put back at    *)
(* buf[at..], with its carry, borrow or shifted-out bits.                  *)
(***************************************************************************)
\* <<buf with r[1] at buf[at..], r[2]>>
InPlace(buf, at, r) == Do(r, <<Put(buf, at, r[1]), r[2]>>)

\* buf with r[1] at buf[at..], under assert!(!carry).
InPlaceNoCarry(buf, at, r) == Do(r, IF r[2] THEN Panic ELSE Put(buf, at, r[1]))

\* buf with r[1] at buf[at..], under assert_eq!(bits, 0).
InPlaceExact(buf, at, r) == Do(r, IF r[2] # ZERO THEN Panic ELSE Put(buf, at, r[1]))

(***************************************************************************)
(* mul/poly_interpolate.rs: _limbs_mul_toom_interpolate_5_points.  p holds *)
(* k, two_r, v_neg_1_neg and v_inf_0 as passed; the steps carry the three  *)
(* slices c, v_2 and v_neg_1 and return them as <<c, v_2, v_neg_1>>.       *)
(***************************************************************************)
\* Add v_inf_0, propagate carry.
Interpolate5AddVInf0(v_2, v_neg_1, p, v_inf_0, c) ==
    Do(c,
        <<InPlaceNoCarry(c, 4 * p.k,
                         limbs_add_limb_to_out(Slice(c, 4 * p.k, 4 * p.k + p.two_r), v_inf_0)),
          v_2, v_neg_1>>)

\* The last step with the carry out of c[3 * k..4 * k] left out of v_inf[0].
Interpolate5AddT2LowCarryDropped(v_2, v_neg_1, p, v_inf_0, r) ==
    Do(r, Interpolate5AddVInf0(v_2, v_neg_1, p, v_inf_0, r[1]))

\* "if carry { v_inf[0].wrapping_add_assign(1); assert!(v_inf[0] >= 1); }"
Interpolate5AddT2LowCarry(v_2, v_neg_1, p, v_inf_0, r) ==
    Do(r,
        IF ~r[2] THEN Interpolate5AddVInf0(v_2, v_neg_1, p, v_inf_0, r[1])
        ELSE IF r[1][4 * p.k + 1] = LIMB_MAX THEN Panic
        ELSE Interpolate5AddVInf0(v_2, v_neg_1, p, v_inf_0,
                                  Set(r[1], 4 * p.k, WrappingAdd(r[1][4 * p.k + 1], ONE))))

\* Add t2 in c[3 * k..], but only the low half.
Interpolate5AddT2Low(v_2, v_neg_1, p, v_inf_0, c) ==
    Do(c,
        Interpolate5AddT2LowCarry(
            v_2, v_neg_1, p, v_inf_0,
            InPlace(c, 3 * p.k,
                    limbs_add_same_length_to_out(Slice(c, 3 * p.k, 4 * p.k),
                                                 Slice(v_2, 0, p.k)))))

\* "if borrow { assert!(!limbs_sub_limb_in_place(v1, 1)); }"
Interpolate5Tm1SubBorrow(v_2, v_neg_1, p, v_inf_0, r) ==
    Do(r,
        Interpolate5AddT2Low(
            v_2, v_neg_1, p, v_inf_0,
            IF r[2]
                THEN InPlaceNoCarry(r[1], 2 * p.k,
                                    limbs_sub_limb_to_out(Slice(r[1], 2 * p.k, 4 * p.k + 1),
                                                          ONE))
            ELSE r[1]))

\* (8) v_neg_1 <- v_neg_1 - v_2, on the low half c[k..2 * k].
Interpolate5Tm1Sub(v_2, v_neg_1, p, v_inf_0, c) ==
    Do(c,
        Interpolate5Tm1SubBorrow(
            v_2, v_neg_1, p, v_inf_0,
            InPlace(c, p.k,
                    limbs_sub_same_length_to_out(Slice(c, p.k, 2 * p.k), Slice(v_2, 0, p.k)))))

\* "if carry { assert!(!limbs_sub_limb_in_place(&mut v1[two_r..], 1)); }", c
\* with v_inf[0] = saved again.
Interpolate5V1SubLast(v_2, v_neg_1, p, v_inf_0, carry, c) ==
    Do(c,
        Interpolate5Tm1Sub(
            v_2, v_neg_1, p, v_inf_0,
            IF carry
                THEN InPlaceNoCarry(c, 2 * p.k + p.two_r,
                                    limbs_sub_limb_to_out(
                                        Slice(c, 2 * p.k + p.two_r, 4 * p.k + 1), ONE))
            ELSE c))

\* v_inf_0 = v_inf[0]; v_inf[0] = saved.
Interpolate5V1SubBorrow(v_2, v_neg_1, p, saved, r) ==
    Do(r,
        Interpolate5V1SubLast(v_2, v_neg_1, p, r[1][4 * p.k + 1], r[2],
                              Set(r[1], 4 * p.k, saved)))

\* (7) v_1 <- v_1 - v_inf on the low two_r limbs.
Interpolate5V1Sub(v_2, v_neg_1, p, saved, c) ==
    Do(c,
        Interpolate5V1SubBorrow(
            v_2, v_neg_1, p, saved,
            InPlace(c, 2 * p.k,
                    limbs_sub_same_length_to_out(Slice(c, 2 * p.k, 2 * p.k + p.two_r),
                                                 Slice(c, 4 * p.k, 4 * p.k + p.two_r)))))

\* "if carry { assert!(!limbs_slice_add_limb_in_place(&mut c_hi[..two_r - k - 1], 1)); }"
Interpolate5AddT2HighCarry(v_2, v_neg_1, p, saved, r) ==
    Do(r,
        Interpolate5V1Sub(
            v_2, v_neg_1, p, saved,
            IF r[2]
                THEN InPlaceNoCarry(r[1], 5 * p.k + 1,
                                    limbs_add_limb_to_out(
                                        Slice(r[1], 5 * p.k + 1, 4 * p.k + p.two_r), ONE))
            ELSE r[1]))

\* Add the high half of t2 in v_inf.
Interpolate5AddT2High(c, v_neg_1, p, saved, v_2) ==
    Do(v_2,
        IF p.two_r > p.k + 1
            THEN Interpolate5AddT2HighCarry(
                     v_2, v_neg_1, p, saved,
                     InPlace(c, 4 * p.k,
                             limbs_add_same_length_to_out(Slice(c, 4 * p.k, 5 * p.k + 1),
                                                          Slice(v_2, p.k, 2 * p.k + 1))))
        ELSE Interpolate5V1Sub(
                 v_2, v_neg_1, p, saved,
                 InPlaceNoCarry(c, 4 * p.k,
                                limbs_add_same_length_to_out(
                                    Slice(c, 4 * p.k, 4 * p.k + p.two_r),
                                    Slice(v_2, p.k, p.k + p.two_r)))))

\* "if borrow { carry += 1; } assert!(!limbs_sub_limb_in_place(&mut v_2[two_r..], carry));"
Interpolate5T2SubHigh(c, v_neg_1, p, saved, carry, r) ==
    Do(r,
        Interpolate5AddT2High(
            c, v_neg_1, p, saved,
            InPlaceNoCarry(r[1], p.two_r,
                           limbs_sub_limb_to_out(Slice(r[1], p.two_r, 2 * p.k + 1),
                                                 IF r[2] THEN WrappingAdd(carry, ONE)
                                                 ELSE carry))))

\* v_neg_1[..two_r] = v_inf << 1; v_2[..two_r] -= v_neg_1[..two_r].
Interpolate5T2Sub(c, v_2, v_neg_1, p, saved, shl) ==
    Do(shl,
        Interpolate5T2SubHigh(
            c, Put(v_neg_1, 0, shl[1]), p, saved, shl[2],
            InPlace(v_2, 0,
                    limbs_sub_same_length_to_out(Slice(v_2, 0, p.two_r),
                                                 Slice(Put(v_neg_1, 0, shl[1]), 0, p.two_r)))))

\* (6) v_2 <- v_2 - 2 * v_inf: saved = v_inf[0]; v_inf[0] = v_inf_0.
Interpolate5VInf(v_2, v_neg_1, p, c) ==
    Do(c,
        Interpolate5T2Sub(
            Set(c, 4 * p.k, p.v_inf_0), v_2, v_neg_1, p, c[4 * p.k + 1],
            limbs_shl_to_out(Slice(Set(c, 4 * p.k, p.v_inf_0), 4 * p.k, 4 * p.k + p.two_r),
                             1)))

\* "if carry { assert!(!limbs_slice_add_limb_in_place(&mut c_hi[..two_r + k - 1], 1)); }"
Interpolate5AddTm1Carry(v_2, v_neg_1, p, r) ==
    Do(r,
        Interpolate5VInf(
            v_2, v_neg_1, p,
            IF r[2]
                THEN InPlaceNoCarry(r[1], 3 * p.k + 1,
                                    limbs_add_limb_to_out(
                                        Slice(r[1], 3 * p.k + 1, 4 * p.k + p.two_r), ONE))
            ELSE r[1]))

\* c[k..3 * k + 1] += v_neg_1.
Interpolate5AddTm1(v_2, v_neg_1, p, c) ==
    Do(c,
        Interpolate5AddTm1Carry(
            v_2, v_neg_1, p,
            InPlace(c, p.k,
                    limbs_add_same_length_to_out(Slice(c, p.k, 3 * p.k + 1), v_neg_1))))

\* (5) v_1 <- t1 - tm1.
Interpolate5V1(c, v_neg_1, p, v_2) ==
    Do(v_2,
        Interpolate5AddTm1(
            v_2, v_neg_1, p,
            InPlaceNoCarry(c, 2 * p.k,
                           limbs_sub_same_length_to_out(Slice(c, 2 * p.k, 4 * p.k + 1),
                                                        v_neg_1))))

\* assert_eq!(limbs_slice_shr_in_place(v_2, 1), 0)
Interpolate5T2Halve(c, v_neg_1, p, v_2) ==
    Do(v_2,
        Interpolate5V1(c, v_neg_1, p,
                       InPlaceExact(v_2, 0, limbs_shr_to_out(Slice(v_2, 0, 2 * p.k + 1), 1))))

\* (4) v_2 <- t2 := ((v_2 - v_neg_1) / 3 - t1) / 2.
Interpolate5T2(v_2, v_neg_1, p, c) ==
    Do(c,
        Interpolate5T2Halve(
            c, v_neg_1, p,
            InPlaceNoCarry(v_2, 0,
                           limbs_sub_same_length_to_out(Slice(v_2, 0, 2 * p.k + 1),
                                                        Slice(c, 2 * p.k, 4 * p.k + 1)))))

\* "if borrow { v_1[two_k].wrapping_sub_assign(1); }"
Interpolate5T1Borrow(v_2, v_neg_1, p, r) ==
    Do(r,
        Interpolate5T2(v_2, v_neg_1, p,
                       IF r[2] THEN Set(r[1], 4 * p.k, WrappingSub(r[1][4 * p.k + 1], ONE))
                       ELSE r[1]))

\* (3) v_1 <- t1 := v_1 - v0.
Interpolate5T1(c, v_2, p, v_neg_1) ==
    Do(v_neg_1,
        Interpolate5T1Borrow(
            v_2, v_neg_1, p,
            InPlace(c, 2 * p.k,
                    limbs_sub_same_length_to_out(Slice(c, 2 * p.k, 4 * p.k),
                                                 Slice(c, 0, 2 * p.k)))))

\* assert_eq!(limbs_slice_shr_in_place(v_neg_1, 1), 0)
Interpolate5Tm1Halve(c, v_2, p, v_neg_1) ==
    Do(v_neg_1,
        Interpolate5T1(c, v_2, p, InPlaceExact(v_neg_1, 0, limbs_shr_to_out(v_neg_1, 1))))

\* (2) v_neg_1 <- tm1 := (v_1 - v_neg_1) / 2, v_neg_1 taken with its sign.
Interpolate5Tm1(c, v_neg_1, p, v_2) ==
    Do(v_2,
        Interpolate5Tm1Halve(
            c, v_2, p,
            InPlaceNoCarry(v_neg_1, 0,
                           IF p.v_neg_1_neg
                               THEN limbs_add_same_length_to_out(
                                        v_neg_1, Slice(c, 2 * p.k, 4 * p.k + 1))
                           ELSE limbs_sub_same_length_to_out(
                                    Slice(c, 2 * p.k, 4 * p.k + 1), v_neg_1))))

\* v_2 <- v_2 / 3
Interpolate5Div3(c, v_neg_1, p, v_2) ==
    Do(v_2,
        Interpolate5Tm1(c, v_neg_1, p,
                        Put(v_2, 0, limbs_div_exact_3_in_place(Slice(v_2, 0, 2 * p.k + 1)))))

\* (1) v_2 <- v_2 - v_neg_1, v_neg_1 taken with its sign.
_limbs_mul_toom_interpolate_5_points(c, v_2, v_neg_1, k, two_r, v_neg_1_neg, v_inf_0) ==
    IF Len(v_neg_1) # 2 * k + 1 \/ two_r > 2 * k THEN Panic
    ELSE Interpolate5Div3(
             c, v_neg_1,
             [k |-> k, two_r |-> two_r, v_neg_1_neg |-> v_neg_1_neg, v_inf_0 |-> v_inf_0],
             InPlaceNoCarry(v_2, 0,
                            IF v_neg_1_neg
                                THEN limbs_add_same_length_to_out(Slice(v_2, 0, 2 * k + 1),
                                                                  v_neg_1)
                            ELSE limbs_sub_same_length_to_out(Slice(v_2, 0, 2 * k + 1),
                                                              v_neg_1)))

(***************************************************************************)
(* square.rs: the size thresholds.  They come from the platform's tuning   *)
(* table (platform::SQR_*, mul::fft::SQR_FFT_MODF_THRESHOLD); the model    *)
(* takes a small table that keeps every routine within the lengths it      *)
(* accepts: Toom-3 from 8 limbs, Toom-4 from 10, Toom-6 from 32 and Toom-8  *)
(* from 58.                                                                *)
(***************************************************************************)
SquareTuning ==
    [basecase |-> 2, toom2 |-> 4, toom3 |-> 8, toom4 |-> 10, toom6 |-> 32, toom8 |-> 58,
     fft_modf |-> 6]

SQR_BASECASE_THRESHOLD == SquareTuning.basecase

SQR_TOOM2_THRESHOLD == SquareTuning.toom2

SQR_TOOM3_THRESHOLD == SquareTuning.toom3

SQR_TOOM4_THRESHOLD == SquareTuning.toom4

SQR_TOOM6_THRESHOLD == SquareTuning.toom6

SQR_TOOM8_THRESHOLD == SquareTuning.toom8

SQR_FFT_MODF_THRESHOLD == SquareTuning.fft_modf

SQR_FFT_THRESHOLD == SQR_FFT_MODF_THRESHOLD * 10

SQR_TOOM3_THRESHOLD_LIMIT == SQR_TOOM3_THRESHOLD

(***************************************************************************)
(* square.rs: the lengths the Toom routines take.  Each routine splits xs   *)
(* into chunks of n limbs and a last chunk of s limbs and asserts on them   *)
(* before anything else; s is a usize, and a difference below zero either   *)
(* fails the subtraction or wraps to a value above n, so that the routine   *)
(* panics in both builds.                                                  *)
(***************************************************************************)
\* assert!(xs_len > 1)
Toom2SizeAsserts(xs_len) == xs_len > 1

\* xs_len.div_round(3, RoundingMode::Ceiling)
Toom3ChunkLen(xs_len) == (xs_len + 2) \div 3

\* s = xs_len - (n << 1); assert_ne!(s, 0); assert!(s <= n)
Toom3SizeAsserts(xs_len) ==
    /\ xs_len - 2 * Toom3ChunkLen(xs_len) > 0
    /\ xs_len - 2 * Toom3ChunkLen(xs_len) <= Toom3ChunkLen(xs_len)

\* (xs_len + 3) >> 2
Toom4ChunkLen(xs_len) == (xs_len + 3) \div 4

\* s = xs_len - 3 * n; assert_ne!(s, 0); assert!(s <= n)
Toom4SizeAsserts(xs_len) ==
    /\ xs_len - 3 * Toom4ChunkLen(xs_len) > 0
    /\ xs_len - 3 * Toom4ChunkLen(xs_len) <= Toom4ChunkLen(xs_len)

\* 1 + (xs_len - 1) / 6, reached for xs_len >= 18 only
Toom6ChunkLen(xs_len) == 1 + (xs_len - 1) \div 6

Toom6SizeAsserts(xs_len) ==
    /\ xs_len >= 18
    /\ xs_len > 5 * Toom6ChunkLen(xs_len)
    /\ xs_len - 5 * Toom6ChunkLen(xs_len) <= Toom6ChunkLen(xs_len)
    /\ 10 * Toom6ChunkLen(xs_len) + 3 <= 2 * xs_len

\* xs_len.shr_round(3, RoundingMode::Ceiling)
Toom8ChunkLen(xs_len) == (xs_len + 7) \div 8

Toom8SizeAsserts(xs_len) ==
    /\ xs_len >= 40
    /\ xs_len > 7 * Toom8ChunkLen(xs_len)
    /\ xs_len - 7 * Toom8ChunkLen(xs_len) <= Toom8ChunkLen(xs_len)
    /\ 2 * (xs_len - 7 * Toom8ChunkLen(xs_len)) > 3

\* The exclusion of 31 left out.
Toom6InputSizeValidWith31(xs_len) ==
    xs_len = 18 \/ (xs_len > 21 /\ xs_len # 25 /\ xs_len # 26)

_limbs_square_to_out_toom_3_input_size_valid(xs_len) == xs_len = 3 \/ xs_len > 4

_limbs_square_to_out_toom_4_input_size_valid(xs_len) ==
    xs_len = 4 \/ xs_len = 7 \/ xs_len = 8 \/ xs_len > 9

_limbs_square_to_out_toom_6_input_size_valid(xs_len) ==
    xs_len = 18 \/ (xs_len > 21 /\ xs_len # 25 /\ xs_len # 26 /\ xs_len # 31)

_limbs_square_to_out_toom_8_input_size_valid(xs_len) ==
    xs_len = 40 \/ (xs_len > 43 /\ xs_len # 49 /\ xs_len # 50 /\ xs_len # 57)

\* TUNE_PROGRAM_BUILD and WANT_FAT_BINARY (mul::toom) are false.
TOOM2_MAYBE_SQR_TOOM2 == SQR_TOOM3_THRESHOLD >= 2 * SQR_TOOM2_THRESHOLD

TOOM3_MAYBE_SQR_TOOM3 == SQR_TOOM4_THRESHOLD >= 3 * SQR_TOOM3_THRESHOLD

TOOM3_MAYBE_SQR_BASECASE == SQR_TOOM3_THRESHOLD < 3 * SQR_TOOM2_THRESHOLD

(***************************************************************************)
(* square.rs: the schoolbook square.                                       *)
(***************************************************************************)
\* _limbs_square_diagonal, from limb i on: out[2 * i], out[2 * i | 1] = xs[i]^2.
RECURSIVE SquareDiagonal(_, _, _)
RECURSIVE SquareDiagonalStore(_, _, _, _)
SquareDiagonal(out, xs, i) ==
    IF i > Len(xs) THEN out
    ELSE SquareDiagonalStore(out, xs, i, XMulYIsZZ(xs[i], xs[i]))

SquareDiagonalStore(out, xs, i, p) ==
    Do(p, SquareDiagonal(Put(out, 2 * (i - 1), <<p[2], p[1]>>), xs, i + 1))

_limbs_square_diagonal(out, xs) == SquareDiagonal(out, xs, 1)

\* "*out_last += x", which overflows in no build that checks it.
AddToLast(out, x) ==
    IF AddCarry(out[Len(out)], x, 0)[2] # 0 THEN Panic
    ELSE Set(out, Len(out) - 1, WrappingAdd(out[Len(out)], x))

\* "if carry { *out_last += 1; }", r the sum put into out_init[1..].
SquareDiagonalAddCarry(out, r) ==
    Do(r,
        IF r[2] THEN AddToLast(Put(out, 1, r[1]), ONE)
        ELSE Put(out, 1, r[1]))

\* out_init[1..] += scratch, shl the shifted scratch and the bit shifted out.
SquareDiagonalAdd(out, shl) ==
    Do(shl,
        SquareDiagonalAddCarry(
            AddToLast(out, shl[2]),
            limbs_add_same_length_to_out(Slice(out, 1, Len(out) - 1), shl[1])))

\* _limbs_square_diagonal_add_shl_1: out, for out.len() = 2 * xs.len() and
\* scratch.len() = 2 * xs.len() - 2.
_limbs_square_diagonal_add_shl_1(out, scratch, xs) ==
    SquareDiagonalAdd(_limbs_square_diagonal(out, xs), limbs_shl_to_out(scratch, 1))

\* The rows xs[i + 1..] * xs[i] for i in 1..n - 1, added into scratch[2 * i..].
RECURSIVE SquareBasecaseRows(_, _, _)
RECURSIVE SquareBasecaseRowsStore(_, _, _, _)
SquareBasecaseRows(scratch, xs, i) ==
    IF i >= Len(xs) - 1 THEN scratch
    ELSE SquareBasecaseRowsStore(
             scratch, xs, i,
             limbs_slice_add_mul_limb_same_length_in_place_left(
                 Slice(scratch, 2 * i, Len(xs) + i - 1), Slice(xs, i + 1, Len(xs)),
                 xs[i + 1]))

SquareBasecaseRowsStore(scratch, xs, i, row) ==
    Do(row, SquareBasecaseRows(Put(scratch, 2 * i, Append(row[1], row[2])), xs, i + 1))

\* scratch[..n] = xs_tail * xs_head, the first row.
SquareBasecaseFirstRow(out, xs, row) ==
    Do(row,
        Put(out, 0,
            _limbs_square_diagonal_add_shl_1(
                Slice(out, 0, 2 * Len(xs)),
                SquareBasecaseRows(Put(Zeros(2 * Len(xs) - 2), 0, Append(row[1], row[2])),
                                   xs, 1),
                xs)))

\* "out[0] = square_lo; out[1] = square_hi;" and the rest, for n > 1.
SquareBasecaseHead(out, xs, p) ==
    Do(p,
        IF Len(xs) = 1 THEN Put(out, 0, <<p[2], p[1]>>)
        ELSE IF Len(xs) > SQR_TOOM2_THRESHOLD THEN Panic
        ELSE SquareBasecaseFirstRow(Put(out, 0, <<p[2], p[1]>>), xs,
                                    limbs_mul_limb_to_out(Tail(xs), Head(xs))))

\* _limbs_square_to_out_basecase: out.
_limbs_square_to_out_basecase(out, xs) ==
    IF xs = <<>> THEN Panic
    ELSE SquareBasecaseHead(out, xs, XMulYIsZZ(Head(xs), Head(xs)))

(***************************************************************************)
(* square.rs: the Toom routines.  A routine's state st is <<out, scratch>>. *)
(* Each of its recursive squarings is a call [src, dst, ws]: it reads      *)
(* src = <<which, from, to>>, a part of xs (which = 0), out (1) or scratch  *)
(* (2), writes into dst, a part of out or scratch, and is lent             *)
(* scratch[ws..].  The routines return <<out, scratch>>.                    *)
(***************************************************************************)
\* The slice a call reads.
CallSrc(st, xs, call) ==
    Slice(IF call.src[1] = 0 THEN xs ELSE st[call.src[1]], call.src[2], call.src[3])

\* The slice a call writes into.
CallDst(st, call) == Slice(st[call.dst[1]], call.dst[2], call.dst[3])

\* st after a call that left r = <<its out, its scratch>>.
CallStore(st, call, r) ==
    IF call.dst[1] = 1
        THEN <<Put(st[1], call.dst[2], r[1]), Put(st[2], call.ws, r[2])>>
    ELSE <<st[1], Put(Put(st[2], call.dst[2], r[1]), call.ws, r[2])>>

Call(src, dst, ws) == [src |-> src, dst |-> dst, ws |-> ws]

\* x <= y for limbs.
LimbLe(x, y) == ~LimbLt(y, x)

RECURSIVE _limbs_square_to_out_toom_2(_, _, _)

\* _limbs_square_to_out_toom_2_recursive: <<p, ws>>.
_limbs_square_to_out_toom_2_recursive(p, a, ws) ==
    IF ~TOOM2_MAYBE_SQR_TOOM2 \/ Len(a) < SQR_TOOM2_THRESHOLD
        THEN <<_limbs_square_to_out_basecase(p, a), ws>>
    ELSE _limbs_square_to_out_toom_2(p, a, ws)

\* The three squarings of Toom-2: v_neg_1, v_inf and v_0.
Toom2Calls(xs_len, n) ==
    <<Call(<<1, 0, n>>, <<2, 0, 2 * n>>, 2 * n),
      Call(<<0, n, xs_len>>, <<1, 2 * n, 2 * xs_len>>, 2 * n),
      Call(<<0, 0, n>>, <<1, 0, 2 * n>>, 2 * n)>>

\* "if carry <= 2 { assert!(!limbs_slice_add_limb_in_place(out_hi, carry)); }
\*  else if limbs_sub_limb_in_place(out_hi, 1) { assert!(carry3); }"
Toom2Last(st, xs_len, n, carry3, r) ==
    Do(r,
        IF r[2] /\ ~carry3 THEN Panic ELSE <<Put(st[1], 3 * n, r[1]), st[2]>>)

\* carry3 = limbs_slice_add_limb_in_place(&mut out[n << 1..], carry2)
Toom2Carry3(scratch, xs_len, n, carry, r) ==
    Do(r,
        IF LimbLe(carry, LimbOf(2))
            THEN <<InPlaceNoCarry(r[1], 3 * n,
                                  limbs_add_limb_to_out(Slice(r[1], 3 * n, 2 * xs_len),
                                                        carry)),
                   scratch>>
        ELSE Toom2Last(<<r[1], scratch>>, xs_len, n, r[2],
                       limbs_sub_limb_to_out(Slice(r[1], 3 * n, 2 * xs_len), ONE)))

\* "assert!(carry.wrapping_add(1) <= 3); assert!(carry2 <= 2);"
Toom2Carries(st, xs_len, n, carry, carry2) ==
    IF LimbLt(LimbOf(3), WrappingAdd(carry, ONE)) \/ LimbLt(LimbOf(2), carry2) THEN Panic
    ELSE Toom2Carry3(st[2], xs_len, n, carry,
                     InPlace(st[1], 2 * n,
                             limbs_add_limb_to_out(Slice(st[1], 2 * n, 2 * xs_len), carry2)))

\* "if limbs_sub_same_length_in_place_left(&mut out[n..3 * n], v_neg_1) {
\*  carry.wrapping_sub_assign(1); }"
Toom2SubVNeg1(scratch, xs_len, n, carry, carry2, r) ==
    Do(r,
        Toom2Carries(<<r[1], scratch>>, xs_len, n,
                     IF r[2] THEN WrappingSub(carry, ONE) ELSE carry, carry2))

\* "if limbs_slice_add_greater_in_place_left(v_inf_lo, &v_inf_hi[..s + s - n]) {
\*  carry += 1; }"
Toom2AddVInfHi(scratch, xs_len, n, carry, carry2, r) ==
    Do(r,
        Toom2SubVNeg1(scratch, xs_len, n,
                      IF r[2] THEN WrappingAdd(carry, ONE) ELSE carry, carry2,
                      InPlace(r[1], n,
                              limbs_sub_same_length_to_out(Slice(r[1], n, 3 * n),
                                                           Slice(scratch, 0, 2 * n)))))

\* "if limbs_add_same_length_to_out(v_0_hi, v_inf_lo, v_0_lo) { carry2 += 1; }"
Toom2AddV0Lo(scratch, xs_len, n, carry, r) ==
    Do(r,
        Toom2AddVInfHi(scratch, xs_len, n, carry,
                       IF r[2] THEN WrappingAdd(carry, ONE) ELSE carry,
                       InPlace(r[1], 2 * n,
                               limbs_add_to_out(Slice(r[1], 2 * n, 3 * n),
                                                Slice(r[1], 3 * n, 2 * xs_len)))))

\* carry = Limb::iverson(limbs_slice_add_same_length_in_place_left(v_inf_lo, v_0_hi))
Toom2AddV0Hi(scratch, xs_len, n, r) ==
    Do(r,
        Toom2AddV0Lo(scratch, xs_len, n, LimbOf(Iverson(r[2])),
                     InPlace(r[1], n,
                             limbs_add_same_length_to_out(Slice(r[1], 2 * n, 3 * n),
                                                          Slice(r[1], 0, n)))))

\* The recomposition of v_0, v_inf and v_neg_1.
Toom2Recompose(st, xs_len, n) ==
    Toom2AddV0Hi(st[2], xs_len, n,
                 InPlace(st[1], 2 * n,
                         limbs_add_same_length_to_out(Slice(st[1], 2 * n, 3 * n),
                                                      Slice(st[1], n, 2 * n))))

\* The squarings from call i on, then the recomposition.
RECURSIVE Toom2Squares(_, _, _, _, _)
RECURSIVE Toom2SquaresStore(_, _, _, _, _, _)
Toom2Squares(st, xs, n, calls, i) ==
    IF i > Len(calls) THEN Toom2Recompose(st, Len(xs), n)
    ELSE Toom2SquaresStore(
             st, xs, n, calls, i,
             _limbs_square_to_out_toom_2_recursive(
                 CallDst(st, calls[i]), CallSrc(st, xs, calls[i]),
                 From(st[2], calls[i].ws)))

Toom2SquaresStore(st, xs, n, calls, i, r) ==
    Do(r, Toom2Squares(CallStore(st, calls[i], r), xs, n, calls, i + 1))

\* out[..n] = |xs_0 - xs_1| for n - s = 1: d is xs_0_init - xs_1 and its borrow.
Toom2DifferenceOdd(out, xs, n, d) ==
    Do(d,
        Put(out, 0,
            Append(d[1], IF d[2] THEN WrappingSub(xs[n], ONE) ELSE xs[n])))

\* out[..n] = |xs_0 - xs_1|
Toom2Difference(out, xs, s, n) ==
    IF s = n
        THEN Put(out, 0,
                 IF limbs_cmp_same_length(Slice(xs, 0, n), From(xs, n)) = "Less"
                     THEN limbs_sub_same_length_to_out(From(xs, n), Slice(xs, 0, n))[1]
                 ELSE limbs_sub_same_length_to_out(Slice(xs, 0, n), From(xs, n))[1])
    ELSE IF xs[n] = ZERO /\ limbs_cmp_same_length(Slice(xs, 0, n - 1), From(xs, n)) = "Less"
        THEN Put(out, 0,
                 Append(limbs_sub_same_length_to_out(From(xs, n), Slice(xs, 0, n - 1))[1],
                        ZERO))
    ELSE Toom2DifferenceOdd(out, xs, n,
                            limbs_sub_same_length_to_out(Slice(xs, 0, n - 1), From(xs, n)))

\* _limbs_square_to_out_toom_2: <<out, scratch>>.
_limbs_square_to_out_toom_2(out, xs, scratch) ==
    IF ~Toom2SizeAsserts(Len(xs)) \/ Len(out) < 2 * Len(xs) THEN Panic
    ELSE Toom2Squares(
             <<Toom2Difference(out, xs, Len(xs) \div 2, Len(xs) - Len(xs) \div 2), scratch>>,
             xs, Len(xs) - Len(xs) \div 2,
             Toom2Calls(Len(xs), Len(xs) - Len(xs) \div 2), 1)

RECURSIVE _limbs_square_to_out_toom_3(_, _, _)

\* _limbs_square_to_out_toom_3_recursive: <<out, scratch>>.
_limbs_square_to_out_toom_3_recursive(out, xs, scratch) ==
    IF TOOM3_MAYBE_SQR_BASECASE /\ Len(xs) < SQR_TOOM2_THRESHOLD
        THEN <<_limbs_square_to_out_basecase(out, xs), scratch>>
    ELSE IF ~TOOM3_MAYBE_SQR_TOOM3 \/ Len(xs) < SQR_TOOM3_THRESHOLD
        THEN _limbs_square_to_out_toom_2(out, xs, scratch)
    ELSE _limbs_square_to_out_toom_3(out, xs, scratch)

\* The five squarings of Toom-3 (m = n + 1, k = m + n): v_neg_1 of asm1_init,
\* v_2 of as2, v_inf of xs_2, v_1 of as1_init and v_0 of xs_0.
Toom3Calls(xs_len, n, out_len) ==
    <<Call(<<2, 2 * n + 2, 3 * n + 2>>, <<2, 0, 2 * n>>, 5 * n + 5),
      Call(<<1, n + 1, 2 * n + 2>>, <<2, 2 * n + 1, 5 * n + 5>>, 5 * n + 5),
      Call(<<0, 2 * n, xs_len>>, <<1, 4 * n, out_len>>, 5 * n + 5),
      Call(<<2, 4 * n + 4, 5 * n + 4>>, <<1, 2 * n, 4 * n>>, 5 * n + 5),
      Call(<<0, 0, n>>, <<1, 0, out_len>>, 5 * n + 5)>>

\* v_neg_1_last without asm1_last: the carry of the doubled product alone.
Toom3VNeg1LastCarryOnly(st, n, r) ==
    Do(r, <<st[1], Put(st[2], n, Append(r[1], r[2]))>>)

\* "*v_neg_1_last = if *asm1_last != 0 { asm1_last.wrapping_add(..(&mut
\*  v_neg_1_init[n..], asm1_init, 2)) } else { 0 }", r the product added in.
Toom3VNeg1Last(st, n, r) ==
    Do(r,
        <<st[1],
          Put(st[2], n, Append(r[1], WrappingAdd(st[2][3 * n + 3], r[2])))>>)

\* "*v_1_last = if *as1_last == 1 { ..(v_1_init, as1_init, 2).wrapping_add(1) }
\*  else if *as1_last != 0 { (as1_last << 1).wrapping_add(..(v_1_init, as1_init, 4)) }
\*  else { 0 }", r the product added in and top what is added to its carry.
Toom3V1Last(st, n, top, r) ==
    Do(r, <<Put(st[1], 3 * n, Append(r[1], WrappingAdd(top, r[2]))), st[2]>>)

\* What follows squaring i, v_inf_0 being out[4 * n] as the third squaring left it.
Toom3After(st, n, i) ==
    IF i = 1
        THEN IF st[2][3 * n + 3] # ZERO
                 THEN Toom3VNeg1Last(
                          st, n,
                          limbs_slice_add_mul_limb_same_length_in_place_left(
                              Slice(st[2], n, 2 * n), Slice(st[2], 2 * n + 2, 3 * n + 2),
                              LimbOf(2)))
             ELSE <<st[1], Set(st[2], 2 * n, ZERO)>>
    ELSE IF i = 4
        THEN IF st[2][5 * n + 5] = ZERO THEN <<Set(st[1], 4 * n, ZERO), st[2]>>
             ELSE Toom3V1Last(
                      st, n,
                      IF st[2][5 * n + 5] = ONE THEN ONE ELSE Shl(st[2][5 * n + 5], 1),
                      limbs_slice_add_mul_limb_same_length_in_place_left(
                          Slice(st[1], 3 * n, 4 * n), Slice(st[2], 4 * n + 4, 5 * n + 4),
                          IF st[2][5 * n + 5] = ONE THEN LimbOf(2) ELSE LimbOf(4)))
    ELSE st

\* <<out, scratch>> of r = <<c, v_2, v_neg_1>>, v_neg_1 = scratch[..k] and
\* v_2 = scratch[k..k + 3 * n + 4].
Toom3Interpolated(scratch, n, r) ==
    Do(r, <<r[1], Put(Put(scratch, 0, r[3]), 2 * n + 1, r[2])>>)

\* The squarings from call i on, then the interpolation.
RECURSIVE Toom3Squares(_, _, _, _, _, _)
RECURSIVE Toom3SquaresStore(_, _, _, _, _, _, _)
RECURSIVE Toom3SquaresAfter(_, _, _, _, _, _)
Toom3Squares(st, xs, n, calls, i, v_inf_0) ==
    IF i > Len(calls)
        THEN Toom3Interpolated(
                 st[2], n,
                 _limbs_mul_toom_interpolate_5_points(
                     st[1], Slice(st[2], 2 * n + 1, 5 * n + 5), Slice(st[2], 0, 2 * n + 1), n,
                     2 * (Len(xs) - 2 * n), FALSE, v_inf_0))
    ELSE Toom3SquaresStore(
             st, xs, n, calls, i, v_inf_0,
             _limbs_square_to_out_toom_3_recursive(
                 CallDst(st, calls[i]), CallSrc(st, xs, calls[i]),
                 From(st[2], calls[i].ws)))

Toom3SquaresStore(st, xs, n, calls, i, v_inf_0, r) ==
    Do(r,
        Toom3SquaresAfter(xs, n, calls, i, v_inf_0,
                          Toom3After(CallStore(st, calls[i], r), n, i)))

Toom3SquaresAfter(xs, n, calls, i, v_inf_0, st) ==
    Do(st,
        Toom3Squares(st, xs, n, calls, i + 1,
                     IF i = 3 THEN st[1][4 * n + 1] ELSE v_inf_0))

\* "*as2_last = carry; assert!(*as1_last <= 2); assert!(*asm1_last <= 1);"
Toom3Evaluated(st, xs, n) ==
    IF LimbLt(LimbOf(2), st[2][5 * n + 5]) \/ LimbLt(ONE, st[2][3 * n + 3]) THEN Panic
    ELSE Toom3Squares(st, xs, n, Toom3Calls(Len(xs), n, Len(st[1])), 1, ZERO)

\* "if limbs_sub_same_length_in_place_left(as2_init, xs_0) { carry.wrapping_sub_assign(1); }"
Toom3As2Sub(scratch, xs, n, carry, r) ==
    Do(r,
        Toom3Evaluated(
            <<Set(r[1], 2 * n + 1, IF r[2] THEN WrappingSub(carry, ONE) ELSE carry), scratch>>,
            xs, n))

\* "carry.wrapping_add_assign(*as1_last); carry = carry.arithmetic_checked_shl(1).unwrap();
\*  carry.wrapping_add_assign(limbs_slice_shl_in_place(as2_init, 1));"
Toom3As2Shl(out, scratch, xs, n, carry, shl) ==
    Do(shl,
        IF Shr(Shl(carry, 1), 1) # carry THEN Panic
        ELSE Toom3As2Sub(scratch, xs, n, WrappingAdd(Shl(carry, 1), shl[2]),
                         InPlace(Put(out, n + 1, shl[1]), n + 1,
                                 limbs_sub_same_length_to_out(shl[1], Slice(xs, 0, n)))))

\* as2_init as the two additions left it, carry the carry out of them.
Toom3As2Added(out, scratch, xs, n, carry) ==
    Do(out,
        Toom3As2Shl(out, scratch, xs, n, WrappingAdd(carry, scratch[5 * n + 5]),
                    limbs_shl_to_out(Slice(out, n + 1, 2 * n + 1), 1)))

\* as2_init[s..] = as1_hi + carry
Toom3As2HighStore(out, scratch, xs, n, s, r) ==
    Do(r, Toom3As2Added(Put(out, n + 1 + s, r[1]), scratch, xs, n, LimbOf(Iverson(r[2]))))

\* "if s != n { carry = Limb::iverson(limbs_add_limb_to_out(&mut as2_init[s..], as1_hi,
\*  carry)); }", r the sum xs_2 + as1_lo.
Toom3As2High(out, scratch, xs, n, s, r) ==
    Do(r,
        IF s = n
            THEN Toom3As2Added(Put(out, n + 1, r[1]), scratch, xs, n, LimbOf(Iverson(r[2])))
        ELSE Toom3As2HighStore(
                 Put(out, n + 1, r[1]), scratch, xs, n, s,
                 limbs_add_limb_to_out(Slice(scratch, 4 * n + 4 + s, 5 * n + 4),
                                       LimbOf(Iverson(r[2])))))

\* as2_init[..s] = xs_2 + as1_lo
Toom3As2(out, xs, n, s, scratch) ==
    Do(scratch,
        Toom3As2High(out, scratch, xs, n, s,
                     limbs_add_same_length_to_out(From(xs, 2 * n),
                                                  Slice(scratch, 4 * n + 4, 4 * n + 4 + s))))

\* "*asm1_last = carry", r the difference put into asm1_init and its borrow.
Toom3Asm1Store(out, scratch, xs, n, s, carry, r) ==
    Do(r,
        Toom3As2(out, xs, n, s,
                 Put(scratch, 2 * n + 2,
                     Append(r[1], IF r[2] THEN WrappingSub(carry, ONE) ELSE carry))))

\* asm1_init = |scratch_lo - xs_1|
Toom3Asm1(out, xs, n, s, carry, scratch) ==
    Do(scratch,
        IF carry = ZERO
               /\ limbs_cmp_same_length(Slice(scratch, 0, n), Slice(xs, n, 2 * n)) = "Less"
            THEN Toom3Asm1Store(
                     out, scratch, xs, n, s, carry,
                     <<limbs_sub_same_length_to_out(Slice(xs, n, 2 * n),
                                                    Slice(scratch, 0, n))[1],
                       FALSE>>)
        ELSE Toom3Asm1Store(
                 out, scratch, xs, n, s, carry,
                 limbs_sub_same_length_to_out(Slice(scratch, 0, n), Slice(xs, n, 2 * n))))

\* "*as1_last = carry; if limbs_add_same_length_to_out(as1_init, scratch_lo, xs_1) {
\*  *as1_last += 1; }"
Toom3As1Store(out, scratch, xs, n, s, carry, r) ==
    Do(r,
        Toom3Asm1(out, xs, n, s, carry,
                  Put(scratch, 4 * n + 4,
                      Append(r[1], IF r[2] THEN WrappingAdd(carry, ONE) ELSE carry))))

\* scratch_lo = xs_0 + xs_2
Toom3As1(out, scratch, xs, n, s, r) ==
    Do(r,
        Toom3As1Store(out, Put(scratch, 0, r[1]), xs, n, s, LimbOf(Iverson(r[2])),
                      limbs_add_same_length_to_out(r[1], Slice(xs, n, 2 * n))))

\* The routine for chunks of n limbs and a last chunk of s limbs.
Toom3Sized(out, xs, scratch, n, s) ==
    IF ~Toom3SizeAsserts(Len(xs)) THEN Panic
    ELSE Toom3As1(out, scratch, xs, n, s, limbs_add_to_out(Slice(xs, 0, n), From(xs, 2 * n)))

\* _limbs_square_to_out_toom_3: <<out, scratch>>.
_limbs_square_to_out_toom_3(out, xs, scratch) ==
    Toom3Sized(out, xs, scratch, Toom3ChunkLen(Len(xs)),
               Len(xs) - 2 * Toom3ChunkLen(Len(xs)))

_limbs_square_to_out_toom_2_scratch_len(xs_len) == (xs_len + WIDTH) * 2

_limbs_square_to_out_toom_3_scratch_len(xs_len) == 3 * xs_len + WIDTH

(***************************************************************************)
(* square.rs: limbs_square_to_out and limbs_square.  The schoolbook        *)
(* multiplication and the FFT multiplication are the library's given       *)
(* multiplications (natural::arithmetic::mul), taken by their contract.    *)
(***************************************************************************)
_limbs_mul_greater_to_out_basecase(out, xs, ys) == Put(out, 0, limbs_mul_to_out(xs, ys))

_limbs_mul_greater_to_out_fft(out, xs, ys) == Put(out, 0, limbs_mul_to_out(xs, ys))

(***************************************************************************)
(* square.rs: Toom-4, Toom-6 and Toom-8.  Their evaluations                *)
(* (mul::poly_eval), _limbs_toom_couple_handling and the 16-point          *)
(* interpolation are the library's given routines; past the size           *)
(* assertions at their head, the three routines are taken by what they     *)
(* document: the 2 * xs.len() low limbs of out become the square.          *)
(***************************************************************************)
SquareByContract(out, xs) == Put(out, 0, limbs_mul_to_out(xs, xs))

\* _limbs_square_to_out_toom_4: <<out, scratch>>.
_limbs_square_to_out_toom_4(out, xs, scratch) ==
    IF ~Toom4SizeAsserts(Len(xs)) THEN Panic
    ELSE <<SquareByContract(out, xs), scratch>>

\* _limbs_square_to_out_toom_6: <<out, scratch>>.
_limbs_square_to_out_toom_6(out, xs, scratch) ==
    IF ~Toom6SizeAsserts(Len(xs)) THEN Panic
    ELSE <<SquareByContract(out, xs), scratch>>

\* _limbs_square_to_out_toom_8: <<out, scratch>>.
_limbs_square_to_out_toom_8(out, xs, scratch) ==
    IF ~Toom8SizeAsserts(Len(xs)) THEN Panic
    ELSE <<SquareByContract(out, xs), scratch>>

_limbs_square_to_out_toom_4_scratch_len(xs_len) == 3 * xs_len + WIDTH

_limbs_square_to_out_toom_6_scratch_len(n) ==
    2 * n
        + Max(2 * SQR_TOOM6_THRESHOLD + WIDTH * 6,
              _limbs_square_to_out_toom_4_scratch_len(SQR_TOOM6_THRESHOLD))
        - 2 * SQR_TOOM6_THRESHOLD

_limbs_square_to_out_toom_8_scratch_len(n) ==
    (n * 15) \div 8
        + Max((SQR_TOOM8_THRESHOLD * 15) \div 8 + WIDTH * 6,
              _limbs_square_to_out_toom_6_scratch_len(SQR_TOOM8_THRESHOLD))
        - (SQR_TOOM8_THRESHOLD * 15) \div 8

\* The routine limbs_square_to_out selects for xs_len limbs.
SquareBranch(xs_len) ==
    IF xs_len < SQR_BASECASE_THRESHOLD THEN "mul_basecase"
    ELSE IF xs_len < SQR_TOOM2_THRESHOLD THEN "basecase"
    ELSE IF xs_len < SQR_TOOM3_THRESHOLD THEN "toom_2"
    ELSE IF xs_len < SQR_TOOM4_THRESHOLD THEN "toom_3"
    ELSE IF xs_len < SQR_TOOM6_THRESHOLD THEN "toom_4"
    ELSE IF xs_len < SQR_TOOM8_THRESHOLD THEN "toom_6"
    ELSE IF xs_len < SQR_FFT_THRESHOLD THEN "toom_8"
    ELSE "fft"

\* limbs_square_to_out: out.
limbs_square_to_out(out, xs) ==
    IF Len(xs) < 1 THEN Panic
    ELSE IF SquareBranch(Len(xs)) = "mul_basecase"
        THEN _limbs_mul_greater_to_out_basecase(out, xs, xs)
    ELSE IF SquareBranch(Len(xs)) = "basecase" THEN _limbs_square_to_out_basecase(out, xs)
    ELSE IF SquareBranch(Len(xs)) = "toom_2"
        THEN _limbs_square_to_out_toom_2(
                 out, xs,
                 Zeros(_limbs_square_to_out_toom_2_scratch_len(SQR_TOOM3_THRESHOLD_LIMIT - 1)))[1]
    ELSE IF SquareBranch(Len(xs)) = "toom_3"
        THEN _limbs_square_to_out_toom_3(
                 out, xs, Zeros(_limbs_square_to_out_toom_3_scratch_len(Len(xs))))[1]
    ELSE IF SquareBranch(Len(xs)) = "toom_4"
        THEN _limbs_square_to_out_toom_4(
                 out, xs, Zeros(_limbs_square_to_out_toom_4_scratch_len(Len(xs))))[1]
    ELSE IF SquareBranch(Len(xs)) = "toom_6"
        THEN _limbs_square_to_out_toom_6(
                 out, xs, Zeros(_limbs_square_to_out_toom_6_scratch_len(Len(xs))))[1]
    ELSE IF SquareBranch(Len(xs)) = "toom_8"
        THEN _limbs_square_to_out_toom_8(
                 out, xs, Zeros(_limbs_square_to_out_toom_8_scratch_len(Len(xs))))[1]
    ELSE _limbs_mul_greater_to_out_fft(out, xs, xs)

\* limbs_square: the square in a fresh vec![0; xs.len() << 1].
limbs_square(xs) == limbs_square_to_out(Zeros(2 * Len(xs)), xs)

(***************************************************************************)
(* Natural: Small(Limb), or Large(Vec<Limb>) with at least two limbs and a *)
(* nonzero top limb.  Natural::from_owned_limbs_asc and Natural::trim      *)
(* (natural/mod.rs) bring limbs to that form.                              *)
(***************************************************************************)
Small(x) == <<"Small", x>>

Large(xs) == <<"Large", xs>>

natural_zero == Small(ZERO)

natural_one == Small(ONE)

IsSmall(n) == n[1] = "Small"

\* The limbs of a Natural, lowest first; those of 0 are one zero limb here.
LimbsOf(n) == IF IsSmall(n) THEN <<n[2]>> ELSE n[2]

RECURSIVE SignificantLen(_)
\* The length of xs without its zero limbs at the top.
SignificantLen(xs) ==
    IF Len(xs) = 0 \/ xs[Len(xs)] # ZERO THEN Len(xs)
    ELSE SignificantLen(Slice(xs, 0, Len(xs) - 1))

\* The Natural of limbs whose top limb is not zero.
NaturalOfSignificant(xs) ==
    IF Len(xs) = 0 THEN natural_zero
    ELSE IF Len(xs) = 1 THEN Small(xs[1])
    ELSE Large(xs)

from_owned_limbs_asc(limbs) ==
    Do(limbs,
        NaturalOfSignificant(Slice(limbs, 0, SignificantLen(limbs))))

trim(n) == IF IsSmall(n) THEN n ELSE from_owned_limbs_asc(n[2])

\* Is n in normal form?
Normalised(n) == IsSmall(n) \/ (Len(n[2]) >= 2 /\ n[2][Len(n[2])] # ZERO)

RECURSIVE DivLimbLoop(_, _, _, _, _)
RECURSIVE DivLimbBit(_, _, _, _, _, _)

\* Bit i of the quotient x / d, from the top bit down: r is the remainder of
\* the bits of x above i.
DivLimbLoop(x, d, i, q, r) ==
    IF i < 0 THEN q
    ELSE DivLimbBit(x, d, i, q, r[2] >= HALF \div 2,
                    WrappingAdd(Shl(r, 1), LimbOf(Shr(x, i)[1] % 2)))

\* r is the remainder with bit i of x brought down, over its bit 32 if that is set.
DivLimbBit(x, d, i, q, over, r) ==
    IF over \/ ~LimbLt(r, d)
        THEN DivLimbLoop(x, d, i - 1, Or(q, Shl(ONE, i)), WrappingSub(r, d))
        ELSE DivLimbLoop(x, d, i - 1, q, r)

\* x / d on u32, d nonzero.
DivLimb(x, d) == DivLimbLoop(x, d, WIDTH - 1, ZERO, ZERO)

\* Natural::div_exact_limb_ref
div_exact_limb_ref(n, other) ==
    IF other = ZERO THEN Panic
    ELSE IF other = ONE THEN n
    ELSE IF IsSmall(n) THEN Small(DivLimb(n[2], other))
    ELSE from_owned_limbs_asc(limbs_div_exact_limb(n[2], other))

\* The quotient limbs left as they are, a zero top limb with them.
div_exact_assign_limb_untrimmed(n, other) ==
    IF other = ZERO THEN Panic
    ELSE IF other = ONE THEN n
    ELSE IF IsSmall(n) THEN Small(DivLimb(n[2], other))
    ELSE Large(limbs_div_exact_limb_in_place(n[2], other))

\* Natural::div_exact_assign_limb: self after the call.
div_exact_assign_limb(n, other) ==
    IF other = ZERO THEN Panic
    ELSE IF other = ONE THEN n
    ELSE IF IsSmall(n) THEN Small(DivLimb(n[2], other))
    ELSE trim(Large(limbs_div_exact_limb_in_place(n[2], other)))

\* impl DivExact<Natural> for &Natural: other is consumed, its limbs shifted in
\* place.
div_exact_ref_val(n, d) ==
    IF d = natural_zero THEN Panic
    ELSE IF d = natural_one THEN n
    ELSE IF n = natural_zero THEN natural_zero
    ELSE IF IsSmall(d) THEN div_exact_limb_ref(n, d[2])
    ELSE IF IsSmall(n) THEN Panic
    ELSE IF Len(n[2]) < Len(d[2]) THEN Panic
    ELSE from_owned_limbs_asc(
             limbs_div_exact_to_out_ref_val(Zeros(Len(n[2]) - Len(d[2]) + 1), n[2],
                                            d[2])[1])

\* impl DivExact<&Natural> for &Natural; same says that both references are to
\* one Natural.
div_exact_ref_ref(n, d, same) ==
    IF d = natural_zero THEN Panic
    ELSE IF d = natural_one THEN n
    ELSE IF n = natural_zero THEN natural_zero
    ELSE IF same THEN natural_one
    ELSE IF IsSmall(d) THEN div_exact_limb_ref(n, d[2])
    ELSE IF IsSmall(n) THEN Panic
    ELSE IF Len(n[2]) < Len(d[2]) THEN Panic
    ELSE from_owned_limbs_asc(
             limbs_div_exact_to_out_ref_ref(Zeros(Len(n[2]) - Len(d[2]) + 1), n[2], d[2]))

\* impl DivExactAssign<Natural> for Natural: self after the call.
div_exact_assign_val(n, d) ==
    IF d = natural_zero THEN Panic
    ELSE IF d = natural_one \/ n = natural_zero THEN n
    ELSE IF IsSmall(d) THEN div_exact_assign_limb(n, d[2])
    ELSE IF IsSmall(n) THEN Panic
    ELSE IF Len(n[2]) < Len(d[2]) THEN Panic
    ELSE trim(Large(limbs_div_exact_to_out(Zeros(Len(n[2]) - Len(d[2]) + 1), n[2],
                                           d[2])[1]))

\* impl DivExactAssign<&Natural> for Natural: self after the call.
div_exact_assign_ref(n, d) ==
    IF d = natural_zero THEN Panic
    ELSE IF d = natural_one \/ n = natural_zero THEN n
    ELSE IF IsSmall(d) THEN div_exact_assign_limb(n, d[2])
    ELSE IF IsSmall(n) THEN Panic
    ELSE IF Len(n[2]) < Len(d[2]) THEN Panic
    ELSE trim(Large(limbs_div_exact_to_out_val_ref(Zeros(Len(n[2]) - Len(d[2]) + 1), n[2],
                                                   d[2])[1]))

\* impl DivExact<Natural> for Natural
div_exact_val_val(n, d) == div_exact_assign_val(n, d)

\* impl DivExact<&Natural> for Natural
div_exact_val_ref(n, d) == div_exact_assign_ref(n, d)

\* Small(lower) or Large([lower, upper]) of p = <<upper, lower>>.
SquareOfSmall(p) == Do(p, IF p[1] = ZERO THEN Small(p[2]) ELSE Large(<<p[2], p[1]>>))

\* impl Square for &Natural
square_ref(x) ==
    IF x = natural_zero \/ x = natural_one THEN x
    ELSE IF IsSmall(x) THEN SquareOfSmall(XMulYIsZZ(x[2], x[2]))
    ELSE from_owned_limbs_asc(limbs_square(x[2]))

\* square_assign with the Large arm left as limbs_square wrote it.
square_assign_untrimmed(x) ==
    IF x = natural_zero \/ x = natural_one THEN x
    ELSE IF IsSmall(x) THEN SquareOfSmall(XMulYIsZZ(x[2], x[2]))
    ELSE Large(limbs_square(x[2]))

\* impl SquareAssign for Natural: self afterwards.
square_assign(x) ==
    IF x = natural_zero \/ x = natural_one THEN x
    ELSE IF IsSmall(x) THEN SquareOfSmall(XMulYIsZZ(x[2], x[2]))
    ELSE trim(Large(limbs_square(x[2])))

\* impl Square for Natural
square_val(x) == square_assign(x)

(***************************************************************************)
(* mod_power_of_2_inverse.rs, for an unsigned type T of 8 or 16 bits.  An  *)
(* Option is <<"None">> or <<"Some", value>>.                              *)
(***************************************************************************)
None == <<"None">>

Some(value) == <<"Some", value>>

RECURSIVE significant_bits(_)
\* x.significant_bits()
significant_bits(x) == IF x = 0 THEN 0 ELSE 1 + significant_bits(x \div 2)

\* x.mod_power_of_2(pow)
mod_power_of_2(x, pow) == x % Pow2(pow)

\* x.mod_power_of_2_mul(y, pow), x and y below 2^pow, pow <= 16: the product is
\* made of the two bytes of x so that it fits.
mod_power_of_2_mul(x, y, pow) ==
    ((x % 256) * y + (((x \div 256) * y) % 256) * 256) % Pow2(pow)

\* x.mod_power_of_2_sub(y, pow), x and y below 2^pow
mod_power_of_2_sub(x, y, pow) == (x - y) % Pow2(pow)

\* inverse <- inverse * (2 - inverse * x) mod 2^small_pow
ModPowerOf2InverseStep(inverse, x, small_pow) ==
    mod_power_of_2_mul(
        inverse,
        mod_power_of_2_sub(
            2, mod_power_of_2_mul(inverse, mod_power_of_2(x, small_pow), small_pow),
            small_pow),
        small_pow)

RECURSIVE ModPowerOf2InverseLoopUncapped(_, _, _, _)
\* The loop without its cap: no step is made to a small_pow above pow.
ModPowerOf2InverseLoopUncapped(x, pow, small_pow, inverse) ==
    IF 2 * small_pow <= pow
        THEN ModPowerOf2InverseLoopUncapped(
                 x, pow, 2 * small_pow,
                 ModPowerOf2InverseStep(inverse, x, 2 * small_pow))
        ELSE inverse

RECURSIVE ModPowerOf2InverseLoop(_, _, _, _)
\* while small_pow < pow { small_pow <<= 1; if small_pow > pow { small_pow = pow } ... }
ModPowerOf2InverseLoop(x, pow, small_pow, inverse) ==
    IF small_pow < pow
        THEN ModPowerOf2InverseLoop(
                 x, pow, Min(2 * small_pow, pow),
                 ModPowerOf2InverseStep(inverse, x, Min(2 * small_pow, pow)))
        ELSE inverse

\* assert_ne!(x, T::ZERO); assert!(pow <= T::WIDTH); assert!(x.significant_bits() <= pow)
ModPowerOf2InverseAsserts(width, x, pow) ==
    x # 0 /\ pow <= width /\ significant_bits(x) <= pow

mod_power_of_2_inverse_fast(x, pow) ==
    IF x % 2 = 0 THEN None
    ELSE IF x = 1 THEN Some(1)
    ELSE Some(ModPowerOf2InverseLoop(x, pow, 2, mod_power_of_2(x, 2)))

mod_power_of_2_inverse(x, pow) == mod_power_of_2_inverse_fast(x, pow)

(***************************************************************************)
(* divisible_by_power_of_2.rs (natural and integer) and                     *)
(* test_util/natural/logic/trailing_zeros.rs.  An Integer is its sign,     *)
(* TRUE for a value that is not negative, and its absolute value.           *)
(***************************************************************************)
LIMB_BITS == WIDTH

LOG_LIMB_BITS == 5

LIMB_BITS_MASK == LIMB_BITS - 1

Integer(sign, abs) == [sign |-> sign, abs |-> abs]

RECURSIVE HalfAnd(_, _)
\* x & y on a half limb, bit by bit.
HalfAnd(x, y) ==
    IF x = 0 \/ y = 0 THEN 0
    ELSE (x % 2) * (y % 2) + 2 * HalfAnd(x \div 2, y \div 2)

\* x & y on u32
LimbAnd(x, y) == <<HalfAnd(x[1], y[1]), HalfAnd(x[2], y[2])>>

\* limb & ((1 << bits) - 1) == 0, bits < LIMB_BITS
LowBitsAreZero(limb, bits) == LimbAnd(limb, WrappingSub(Shl(ONE, bits), ONE)) = ZERO

\* The Large arm with its test of the limbs below zero_limbs left out.
DivisibleByPowerOf2LargeLowLimbsUnread(limbs, pow, zero_limbs) ==
    IF zero_limbs >= Len(limbs) THEN FALSE
    ELSE LowBitsAreZero(limbs[zero_limbs + 1], pow % (LIMB_BITS_MASK + 1))

\* (&Large(ref limbs), pow): zero_limbs = pow >> LOG_LIMB_BITS
DivisibleByPowerOf2Large(limbs, pow, zero_limbs) ==
    IF zero_limbs >= Len(limbs) \/ ~slice_test_zero(Slice(limbs, 0, zero_limbs)) THEN FALSE
    ELSE LowBitsAreZero(limbs[zero_limbs + 1], pow % (LIMB_BITS_MASK + 1))

\* Natural::divisible_by_power_of_2
divisible_by_power_of_2(n, pow) ==
    IF pow = 0 \/ n = Small(ZERO) THEN TRUE
    ELSE IF IsSmall(n) /\ pow >= LIMB_BITS THEN FALSE
    ELSE IF IsSmall(n) THEN LowBitsAreZero(n[2], pow)
    ELSE DivisibleByPowerOf2Large(n[2], pow, pow \div Pow2(LOG_LIMB_BITS))

\* Integer::divisible_by_power_of_2
integer_divisible_by_power_of_2(n, pow) == divisible_by_power_of_2(n.abs, pow)

\* The bits of a Natural, lowest first (n.bits()): bit i, from 0.
NaturalBit(n, i) ==
    (LimbsOf(n)[i \div WIDTH + 1][(i % WIDTH) \div HALF_WIDTH + 1] \div Pow2(i % HALF_WIDTH)) % 2
        = 1

RECURSIVE CountWhileZero(_, _)
\* n.bits().take_while(|&b| !b).count(), counted from bit i; n is not 0.
CountWhileZero(n, i) == IF NaturalBit(n, i) THEN 0 ELSE 1 + CountWhileZero(n, i + 1)

natural_trailing_zeros_alt(n) ==
    IF n = Small(ZERO) THEN None ELSE Some(CountWhileZero(n, 0))

(***************************************************************************)
(* num/conversion/from.rs: lossy_conversion!($a, $b).  A primitive integer *)
(* type is its signedness and its width; its values are integers here, and *)
(* the types are those of 8 and 16 bits.                                   *)
(***************************************************************************)
PrimitiveInt(signed, width) == [signed |-> signed, width |-> width]

\* $t::MIN
MinOf(t) == IF t.signed THEN -Pow2(t.width - 1) ELSE 0

\* $t::MAX
MaxOf(t) == IF t.signed THEN Pow2(t.width - 1) - 1 ELSE Pow2(t.width) - 1

\* value as $b: the low b.width bits of value, read as a value of $b.
wrapping_from(value, b) ==
    IF b.signed /\ value % Pow2(b.width) >= Pow2(b.width - 1)
        THEN (value % Pow2(b.width)) - Pow2(b.width)
        ELSE value % Pow2(b.width)

\* The test of the round trip alone, the signs not compared.
checked_from_lossy_signs_uncompared(value, a, b) ==
    IF wrapping_from(wrapping_from(value, b), a) = value
        THEN Some(wrapping_from(value, b))
        ELSE None

\* checked_from_lossy::<A, B>(value)
checked_from_lossy(value, a, b) ==
    IF /\ (wrapping_from(value, b) >= 0) = (value >= 0)
       /\ wrapping_from(wrapping_from(value, b), a) = value
        THEN Some(wrapping_from(value, b))
        ELSE None

\* convertible_from_lossy::<A, B>(value)
convertible_from_lossy(value, a, b) ==
    /\ (wrapping_from(value, b) >= 0) = (value >= 0)
    /\ wrapping_from(wrapping_from(value, b), a) = value

\* <$b as CheckedFrom<$a>>::checked_from(value)
checked_from(value, a, b) == checked_from_lossy(value, a, b)

\* <$b as ConvertibleFrom<$a>>::convertible_from(value)
convertible_from(value, a, b) == convertible_from_lossy(value, a, b)

(***************************************************************************)
(* integer/arithmetic/div_round.rs.  The division of Naturals with         *)
(* rounding, the negation of a rounding mode and                            *)
(* Integer::from_sign_and_abs are not in these files: they are taken by    *)
(* their contract, over Naturals of one limb below 2^31.                    *)
(***************************************************************************)
RoundingModes == {"Down", "Up", "Floor", "Ceiling", "Nearest", "Exact"}

\* -rm
NegRoundingMode(rm) == IF rm = "Floor" THEN "Ceiling" ELSE IF rm = "Ceiling" THEN "Floor" ELSE rm

\* Ordering::reverse
reverse(o) == IF o = "Less" THEN "Greater" ELSE IF o = "Greater" THEN "Less" ELSE o

\* The value of a Natural of one limb, and the Natural of a value.
NaturalValue(n) == Lo(n[2]) + HALF * Hi(n[2])

NaturalOf(v) == Small(Limb(v \div HALF, v % HALF))

\* Does the division of x by y, both values, round up under rm?
RoundsUp(x, y, rm) ==
    /\ x % y # 0
    /\ \/ rm \in {"Up", "Ceiling"}
       \/ rm = "Nearest" /\ 2 * (x % y) > y
       \/ rm = "Nearest" /\ 2 * (x % y) = y /\ (x \div y) % 2 = 1

\* (&Natural).div_round(&Natural, rm), y # 0, and x a multiple of y if rm is Exact:
\* <<quotient, Ordering>>.
natural_div_round(x, y, rm) ==
    IF NaturalValue(x) % NaturalValue(y) = 0
        THEN <<NaturalOf(NaturalValue(x) \div NaturalValue(y)), "Equal">>
    ELSE IF RoundsUp(NaturalValue(x), NaturalValue(y), rm)
        THEN <<NaturalOf(NaturalValue(x) \div NaturalValue(y) + 1), "Greater">>
    ELSE <<NaturalOf(NaturalValue(x) \div NaturalValue(y)), "Less">>

\* "Panics if `other` is zero, or if `rm` is `Exact` but `self` is not divisible by `other`."
NaturalDivRoundPanics(x, y, rm) ==
    \/ y = Small(ZERO)
    \/ rm = "Exact" /\ NaturalValue(x) % NaturalValue(y) # 0

\* Integer::from_sign_and_abs
from_sign_and_abs(sign, abs) == Integer(sign \/ abs = Small(ZERO), abs)

\* q = <<q_abs, o>>
IntegerDivRoundResult(q_sign, q) ==
    <<from_sign_and_abs(q_sign, q[1]), IF q_sign THEN q[2] ELSE reverse(q[2])>>

\* The mode handed on as it is, whatever the signs.
integer_div_round_mode_unnegated(x, y, rm) ==
    IntegerDivRoundResult(x.sign = y.sign, natural_div_round(x.abs, y.abs, rm))

\* (&Integer).div_round(&Integer, rm): <<quotient, Ordering>>.
integer_div_round(x, y, rm) ==
    IntegerDivRoundResult(
        x.sign = y.sign,
        natural_div_round(x.abs, y.abs, IF x.sign = y.sign THEN rm ELSE NegRoundingMode(rm)))

\* q = <<self.abs, o>> after self.abs.div_round_assign: <<self, Ordering>>.
IntegerDivRoundAssigned(q_sign, q) ==
    <<Integer(q_sign \/ q[1] = Small(ZERO), q[1]), IF q_sign THEN q[2] ELSE reverse(q[2])>>

\* Integer::div_round_assign(&mut self, other, rm): <<self, Ordering>>.
integer_div_round_assign(x, y, rm) ==
    IntegerDivRoundAssigned(
        x.sign = y.sign,
        natural_div_round(x.abs, y.abs, IF x.sign = y.sign THEN rm ELSE NegRoundingMode(rm)))

\* Integer::div_round(self, other, rm), by value: div_round_assign on self.
integer_div_round_val_val(x, y, rm) == integer_div_round_assign(x, y, rm)

(***************************************************************************)
(* bools/random.rs: RandomBools { rng, x, bits_left }.  The generator is   *)
(* not part of the value here: the word that rng.gen() yields is handed to *)
(* next.                                                                   *)
(***************************************************************************)
\* random_bools(seed)
random_bools == [x |-> ZERO, bits_left |-> 0]

\* next without its shift: the word stays as it was drawn.
RandomBoolsAdvanceUnshifted(self, word) ==
    IF self.bits_left = 0 THEN [x |-> word, bits_left |-> 31]
    ELSE [x |-> self.x, bits_left |-> self.bits_left - 1]

\* The fields after next; word is what self.rng.gen() yields, if it is called.
RandomBoolsAdvance(self, word) ==
    IF self.bits_left = 0 THEN [x |-> word, bits_left |-> 31]
    ELSE [x |-> Shr(self.x, 1), bits_left |-> self.bits_left - 1]

\* RandomBools::next: <<self, Option<bool>>>
random_bools_next(self, word) ==
    <<RandomBoolsAdvance(self, word), Some(Odd(RandomBoolsAdvance(self, word).x))>>

(***************************************************************************)
(* div_exact.rs: the blocks of qs the Barrett routines write, <<offset in  *)
(* qs, length>> in the order they are written, from the lengths alone.     *)
(***************************************************************************)
RECURSIVE BarrettGreaterBlocksLoop(_, _, _, _)

\* "while n_len_s > limit": qs_hi[..i_len] at diff + i_len; after the loop
\* qs_hi[..n_len_s - i_len].
BarrettGreaterBlocksLoop(blocks, n_len, n_len_s, i_len) ==
    IF n_len_s > 2 * i_len
        THEN BarrettGreaterBlocksLoop(Append(blocks, <<n_len - n_len_s + i_len, i_len>>),
                                      n_len, n_len_s - i_len, i_len)
        ELSE Append(blocks, <<n_len - n_len_s + i_len, n_len_s - i_len>>)

BarrettGreaterBlocksOf(n_len, i_len) ==
    BarrettGreaterBlocksLoop(<<<<0, i_len>>>>, n_len, n_len, i_len)

\* _limbs_modular_div_barrett_greater, ns.len() > ds.len().
BarrettGreaterBlocks(n_len, d_len) ==
    BarrettGreaterBlocksOf(n_len, BarrettGreaterILen(n_len, d_len))

\* _limbs_modular_div_barrett_same_length: qs_lo and qs_hi.
BarrettSameLengthBlocks(n_len) ==
    <<<<0, CeilingHalf(n_len)>>, <<CeilingHalf(n_len), n_len - CeilingHalf(n_len)>>>>

RECURSIVE ModBarrettUnbalancedBlocksLoop(_, _, _, _)

\* "while q_len_s > i_len": qs[q_len - q_len_s..][..i_len]; after the loop
\* qs[q_len - q_len_s..].
ModBarrettUnbalancedBlocksLoop(blocks, q_len, q_len_s, i_len) ==
    IF q_len_s > i_len
        THEN ModBarrettUnbalancedBlocksLoop(Append(blocks, <<q_len - q_len_s, i_len>>),
                                            q_len, q_len_s - i_len, i_len)
        ELSE Append(blocks, <<q_len - q_len_s, q_len_s>>)

\* _limbs_modular_div_mod_barrett_unbalanced, q_len = n_len - d_len > d_len.
ModBarrettUnbalancedBlocks(n_len, d_len) ==
    ModBarrettUnbalancedBlocksLoop(<<>>, n_len - d_len, n_len - d_len,
                                   BarrettGreaterILen(n_len - d_len, d_len))

\* _limbs_modular_div_mod_barrett_balanced: qs_lo and qs_hi of qs[..q_len].
ModBarrettBalancedBlocks(n_len, d_len) ==
    <<<<0, CeilingHalf(n_len - d_len)>>,
      <<CeilingHalf(n_len - d_len), n_len - d_len - CeilingHalf(n_len - d_len)>>>>

(***************************************************************************)
(* div_exact.rs: the parts of a divisor of n limbs the divide-and-conquer  *)
(* helpers solve, in the order of their calls: the routine called, the     *)
(* offset in qs of the quotient limbs it writes and the length of the      *)
(* divisor slice it is given, which is the number of those limbs.          *)
(***************************************************************************)
DCCall(routine, at, len) == [routine |-> routine, at |-> at, len |-> len]

\* "if lo < DC_BDIV_QR_THRESHOLD { _limbs_modular_div_mod_schoolbook } else { helper }"
ModDivModBlockRoutine(len) ==
    IF len < DC_BDIV_QR_THRESHOLD THEN "_limbs_modular_div_mod_schoolbook"
    ELSE "_limbs_modular_div_mod_divide_and_conquer_helper"

\* The larger part first: hi = n - (n >> 1) limbs at qs[0], then lo.
ModDivModDCHelperCallsHighFirst(n) ==
    <<DCCall(ModDivModBlockRoutine(CeilingHalf(n)), 0, CeilingHalf(n)),
      DCCall(ModDivModBlockRoutine(FloorHalf(n)), CeilingHalf(n), FloorHalf(n))>>

\* _limbs_modular_div_mod_divide_and_conquer_helper with ds.len() = n: ds[..lo] for
\* qs, then ds[..hi] for qs_hi = qs[lo..].
ModDivModDCHelperCalls(n) ==
    <<DCCall(ModDivModBlockRoutine(FloorHalf(n)), 0, FloorHalf(n)),
      DCCall(ModDivModBlockRoutine(n - FloorHalf(n)), FloorHalf(n), n - FloorHalf(n))>>

RECURSIVE ModDivDCHelperCalls(_, _, _)
\* _limbs_modular_div_divide_and_conquer_helper with ds.len() = n: "while n_rem >=
\* DC_BDIV_Q_THRESHOLD" calls the other helper with ds[..lo] for qs[m..] and goes on
\* with n_rem = hi; the schoolbook call ends it.
ModDivDCHelperCalls(calls, n, n_rem) ==
    IF n_rem >= DC_BDIV_Q_THRESHOLD
        THEN ModDivDCHelperCalls(
                 Append(calls, DCCall("_limbs_modular_div_mod_divide_and_conquer_helper",
                                      n - n_rem, FloorHalf(n_rem))),
                 n, n_rem - FloorHalf(n_rem))
        ELSE Append(calls, DCCall("_limbs_modular_div_schoolbook", n - n_rem, n_rem))

(***************************************************************************)
(* mul/poly_interpolate.rs: what the two calls of                          *)
(* limbs_slice_shr_in_place(.., 1) in _limbs_mul_toom_interpolate_5_points *)
(* shift out, <<of tm1, of t2>>, from steps (1) to (4) on the same slices. *)
(***************************************************************************)
\* (4) v_2 - t1 is halved.
Interpolate5ShiftedOutT2(tm1_bits, v_2, v_1) ==
    <<tm1_bits, limbs_shr_to_out(limbs_sub_same_length_to_out(v_2, v_1)[1], 1)[2]>>

\* (3) r = v_1[..two_k] - c_lo and its borrow, taken from v_1[two_k].
Interpolate5ShiftedOutT1(tm1_bits, v_2, c, k, r) ==
    Do(r,
        Interpolate5ShiftedOutT2(
            tm1_bits, v_2,
            Append(r[1], IF r[2] THEN WrappingSub(c[4 * k + 1], ONE) ELSE c[4 * k + 1])))

\* (2) tm1 = v_1 - v_neg_1 is halved; v_2 is (v_2 - v_neg_1) / 3.
Interpolate5ShiftedOutTm1(c, k, v_2, tm1) ==
    Do(tm1,
        Interpolate5ShiftedOutT1(
            limbs_shr_to_out(tm1, 1)[2], v_2, c, k,
            limbs_sub_same_length_to_out(Slice(c, 2 * k, 4 * k), Slice(c, 0, 2 * k))))

Interpolate5ShiftedOut(c, v_2, v_neg_1, k, v_neg_1_neg) ==
    Interpolate5ShiftedOutTm1(
        c, k,
        limbs_div_exact_3_in_place(
            IF v_neg_1_neg
                THEN limbs_add_same_length_to_out(Slice(v_2, 0, 2 * k + 1), v_neg_1)[1]
                ELSE limbs_sub_same_length_to_out(Slice(v_2, 0, 2 * k + 1), v_neg_1)[1]),
        IF v_neg_1_neg
            THEN limbs_add_same_length_to_out(v_neg_1, Slice(c, 2 * k, 4 * k + 1))[1]
            ELSE limbs_sub_same_length_to_out(Slice(c, 2 * k, 4 * k + 1), v_neg_1)[1])

(***************************************************************************)
(* mul/poly_interpolate.rs: _limbs_mul_toom_interpolate_7_points up to its *)
(* addition chain.  w holds the seven values (w0, w2 and w6 are slices of  *)
(* out), the two sign flags, and low, the lowest limb of each value as it  *)
(* stood at the assertion before a right shift, in the order of the        *)
(* shifts.  Carries and borrows out of the 2 * n + 1 limbs are dropped, as *)
(* the code drops them.                                                    *)
(***************************************************************************)

\* w5 = w5 - w1
Interpolate7W5SubW1(w) ==
    Do(w,
        [w EXCEPT !.w5 = limbs_sub_same_length_to_out(w.w5, w.w1)[1]])

\* assert!(w1[0].even()); limbs_slice_shr_in_place(w1, 1)
Interpolate7W1HalveAgain(w) ==
    Do(w,
        Interpolate7W5SubW1(
            [w EXCEPT !.low = Append(w.low, w.w1[1]), !.w1 = limbs_shr_to_out(w.w1, 1)[1]]))

\* w1 = w1 + w5
Interpolate7W1AddW5(w) ==
    Do(w,
        Interpolate7W1HalveAgain(
            [w EXCEPT !.w1 = limbs_add_same_length_to_out(w.w1, w.w5)[1]]))

\* w1 = w1 / 15
Interpolate7W1Div15(w) ==
    Do(w,
        Interpolate7W1AddW5(
            [w EXCEPT !.w1 = limbs_div_exact_limb_in_place(w.w1, LimbOf(15))]))

\* w3 = w3 - w5
Interpolate7W3SubW5(w) ==
    Do(w,
        Interpolate7W1Div15(
            [w EXCEPT !.w3 = limbs_sub_same_length_to_out(w.w3, w.w5)[1]]))

\* w5 = w5 / 9
Interpolate7W5Div9(w) ==
    Do(w,
        Interpolate7W3SubW5(
            [w EXCEPT !.w5 = limbs_div_exact_limb_in_place(w.w5, LimbOf(9))]))

\* w5 = w5 - w3 * 8, the shifted w3 in scratch[..m]
Interpolate7W5SubW3(w) ==
    Do(w,
        Interpolate7W5Div9(
            [w EXCEPT !.w5 = limbs_sub_same_length_to_out(w.w5, limbs_shl_to_out(w.w3, 3)[1])[1]]))

\* w1 = w5 - w1
Interpolate7W1FromW5(w) ==
    Do(w,
        Interpolate7W5SubW3(
            [w EXCEPT !.w1 = limbs_sub_same_length_to_out(w.w5, w.w1)[1]]))

\* w2 = w2 - w4
Interpolate7W2SubW4(w) ==
    Do(w,
        Interpolate7W1FromW5(
            [w EXCEPT !.w2 = limbs_sub_same_length_to_out(w.w2, w.w4)[1]]))

\* w4 = w4 / 3
Interpolate7W4Div3(w) ==
    Do(w,
        Interpolate7W2SubW4(
            [w EXCEPT !.w4 = limbs_div_exact_3_in_place(w.w4)]))

\* w4 = w4 - w2
Interpolate7W4SubW2(w) ==
    Do(w,
        Interpolate7W4Div3(
            [w EXCEPT !.w4 = limbs_sub_same_length_to_out(w.w4, w.w2)[1]]))

\* assert!(w5[0].even()); limbs_slice_shr_in_place(w5, 1)
Interpolate7W5Halve(w) ==
    Do(w,
        Interpolate7W4SubW2(
            [w EXCEPT !.low = Append(w.low, w.w5[1]), !.w5 = limbs_shr_to_out(w.w5, 1)[1]]))

\* w5 = w5 + w2 * 45
Interpolate7W5AddMul(w) ==
    Do(w,
        Interpolate7W5Halve(
            [w EXCEPT !.w5 = limbs_slice_add_mul_limb_same_length_in_place_left(w.w5, w.w2,
                                                                             LimbOf(45))[1]]))

\* w2 = w2 - w0
Interpolate7W2SubW0(w) ==
    Do(w,
        Interpolate7W5AddMul(
            [w EXCEPT !.w2 = limbs_sub_to_out(w.w2, w.w0)[1]]))

\* w2 = w2 - w6
Interpolate7W2SubW6(w) ==
    Do(w,
        Interpolate7W2SubW0(
            [w EXCEPT !.w2 = limbs_sub_to_out(w.w2, w.w6)[1]]))

\* w5 = w5 - w2 * 65
Interpolate7W5SubMul(w) ==
    Do(w,
        Interpolate7W2SubW6(
            [w EXCEPT !.w5 = limbs_sub_mul_limb_same_length_in_place_left(w.w5, w.w2, LimbOf(65))[1]]))

\* w2 = w2 - w3
Interpolate7W2SubW3(w) ==
    Do(w,
        Interpolate7W5SubMul(
            [w EXCEPT !.w2 = limbs_sub_same_length_to_out(w.w2, w.w3)[1]]))

\* assert!(w3[0].even()); limbs_slice_shr_in_place(w3, 1)
Interpolate7W3Halve(w) ==
    Do(w,
        Interpolate7W2SubW3(
            [w EXCEPT !.low = Append(w.low, w.w3[1]), !.w3 = limbs_shr_to_out(w.w3, 1)[1]]))

\* w3 = (w2 - w3) / 2, w3 taken with its sign: the difference
Interpolate7W3(w) ==
    Do(w,
        Interpolate7W3Halve(
            [w EXCEPT !.w3 = IF w.w3_neg THEN limbs_add_same_length_to_out(w.w3, w.w2)[1]
                                ELSE limbs_sub_same_length_to_out(w.w2, w.w3)[1]]))

\* w4 = w4 - w6 * 16, the shifted w6 and its carry limb in scratch
Interpolate7W4SubW6(w) ==
    Do(w,
        Interpolate7W3(
            [w EXCEPT !.w4 = limbs_sub_to_out(w.w4, Append(limbs_shl_to_out(w.w6, 4)[1],
                                                         limbs_shl_to_out(w.w6, 4)[2]))[1]]))

\* assert!(w4[0].divisible_by_power_of_two(2)); limbs_slice_shr_in_place(w4, 2)
Interpolate7W4Quarter(w) ==
    Do(w,
        Interpolate7W4SubW6(
            [w EXCEPT !.low = Append(w.low, w.w4[1]), !.w4 = limbs_shr_to_out(w.w4, 2)[1]]))

\* w4 = w4 - w1
Interpolate7W4SubW1(w) ==
    Do(w,
        Interpolate7W4Quarter(
            [w EXCEPT !.w4 = limbs_sub_same_length_to_out(w.w4, w.w1)[1]]))

\* w4 = w4 - w0
Interpolate7W4SubW0(w) ==
    Do(w,
        Interpolate7W4SubW1(
            [w EXCEPT !.w4 = limbs_sub_to_out(w.w4, w.w0)[1]]))

\* assert!(w1[0].even()); limbs_slice_shr_in_place(w1, 1)
Interpolate7W1Halve(w) ==
    Do(w,
        Interpolate7W4SubW0(
            [w EXCEPT !.low = Append(w.low, w.w1[1]), !.w1 = limbs_shr_to_out(w.w1, 1)[1]]))

\* w1 = (w4 - w1) / 2, w1 taken with its sign: the difference
Interpolate7W1(w) ==
    Do(w,
        Interpolate7W1Halve(
            [w EXCEPT !.w1 = IF w.w1_neg THEN limbs_add_same_length_to_out(w.w1, w.w4)[1]
                                ELSE limbs_sub_same_length_to_out(w.w4, w.w1)[1]]))

\* w5 = w5 + w4
Interpolate7W5AddW4(w) ==
    Do(w,
        Interpolate7W1(
            [w EXCEPT !.w5 = limbs_add_same_length_to_out(w.w5, w.w4)[1]]))

\* The flags taken as false whatever the signs of f(-2) and f(-1).
Interpolate7PointsValuesSignsUnread(out, n, n_high, w1_neg, w1, w3_neg, w3, w4, w5) ==
    Interpolate7W5AddW4(
        [w0 |-> Slice(out, 0, 2 * n), w1 |-> w1, w2 |-> Slice(out, 2 * n, 4 * n + 1),
         w3 |-> w3, w4 |-> w4, w5 |-> w5, w6 |-> Slice(out, 6 * n, 6 * n + n_high),
         w1_neg |-> FALSE, w3_neg |-> FALSE, low |-> <<>>])

\* _limbs_mul_toom_interpolate_7_points before the addition chain: the seven values
\* and the limbs its assertions on parity read.
Interpolate7PointsValues(out, n, n_high, w1_neg, w1, w3_neg, w3, w4, w5) ==
    IF ~(n_high # 0 /\ n_high < 2 * n + 1 /\ Len(w1) = 2 * n + 1 /\ Len(w3) = 2 * n + 1
             /\ Len(w4) = 2 * n + 1 /\ Len(w5) = 2 * n + 1)
        THEN Panic
    ELSE Interpolate7W5AddW4(
             [w0 |-> Slice(out, 0, 2 * n), w1 |-> w1, w2 |-> Slice(out, 2 * n, 4 * n + 1),
              w3 |-> w3, w4 |-> w4, w5 |-> w5, w6 |-> Slice(out, 6 * n, 6 * n + n_high),
              w1_neg |-> w1_neg, w3_neg |-> w3_neg, low |-> <<>>])

(***************************************************************************)
(* square.rs: the limbs the carry assertions of Toom-2 and Toom-3 read,    *)
(* from the same steps on the same chunks, the squares of the chunks being *)
(* given.                                                                  *)
(***************************************************************************)
\* "if limbs_sub_same_length_in_place_left(&mut out[n..3 * n], v_neg_1) {
\*  carry.wrapping_sub_assign(1); }": <<carry, carry2>> as the assertions read them.
Toom2CarriesSeenSub(carry, carry2, r) ==
    Do(r, <<IF r[2] THEN WrappingSub(carry, ONE) ELSE carry, carry2>>)

\* r is v_inf_lo + v_inf_hi[..s + s - n] in out[2 * n..3 * n] and its carry.
Toom2CarriesSeenAddVInfHi(out, v_neg_1, n, carry, carry2, r) ==
    Do(r,
        Toom2CarriesSeenSub(
            IF r[2] THEN WrappingAdd(carry, ONE) ELSE carry, carry2,
            limbs_sub_same_length_to_out(Slice(Put(out, 2 * n, r[1]), n, 3 * n), v_neg_1)))

\* r is v_inf_lo + v_0_lo, written to v_0_hi, and its carry.
Toom2CarriesSeenAddV0Lo(out, v_neg_1, n, carry, r) ==
    Do(r,
        Toom2CarriesSeenAddVInfHi(
            Put(out, n, r[1]), v_neg_1, n, carry,
            IF r[2] THEN WrappingAdd(carry, ONE) ELSE carry,
            limbs_add_to_out(Slice(out, 2 * n, 3 * n), From(out, 3 * n))))

\* r is v_inf_lo + v_0_hi, written to v_inf_lo, and its carry.
Toom2CarriesSeenAddV0Hi(out, v_neg_1, n, r) ==
    Do(r,
        Toom2CarriesSeenAddV0Lo(
            Put(out, 2 * n, r[1]), v_neg_1, n, LimbOf(Iverson(r[2])),
            limbs_add_same_length_to_out(r[1], Slice(out, 0, n))))

\* out = v_0 and v_inf, the squares of xs_0 and xs_1; v_neg_1 the square of their
\* difference.
Toom2CarriesSeen(out, v_neg_1, n) ==
    Toom2CarriesSeenAddV0Hi(
        out, v_neg_1, n,
        limbs_add_same_length_to_out(Slice(out, 2 * n, 3 * n), Slice(out, n, 2 * n)))

\* asm1_init = scratch_lo - xs_1 whatever their order: the borrow is taken from carry.
Toom3Asm1LastNotAbsolute(lo, xs_1, carry) ==
    IF limbs_sub_same_length_to_out(lo, xs_1)[2] THEN WrappingSub(carry, ONE) ELSE carry

\* *asm1_last: 0 where xs_1 - scratch_lo is taken, else carry less the borrow.
Toom3Asm1Last(lo, xs_1, carry) ==
    IF carry = ZERO /\ limbs_cmp_same_length(lo, xs_1) = "Less" THEN carry
    ELSE IF limbs_sub_same_length_to_out(lo, xs_1)[2] THEN WrappingSub(carry, ONE)
    ELSE carry

\* r is scratch_lo = xs_0 + xs_2 and its carry: <<*as1_last, *asm1_last>>.
Toom3TopLimbsSeenFrom(xs_1, r) ==
    Do(r,
        <<IF limbs_add_same_length_to_out(r[1], xs_1)[2]
              THEN WrappingAdd(LimbOf(Iverson(r[2])), ONE)
              ELSE LimbOf(Iverson(r[2])),
          Toom3Asm1Last(r[1], xs_1, LimbOf(Iverson(r[2])))>>)

Toom3TopLimbsSeen(xs, n) ==
    Toom3TopLimbsSeenFrom(Slice(xs, n, 2 * n),
                          limbs_add_to_out(Slice(xs, 0, n), From(xs, 2 * n)))

(***************************************************************************)
(* square.rs, div_exact.rs: the lengths of the operands of the recursive   *)
(* calls, in the order of the calls.                                       *)
(***************************************************************************)
CallLens(calls) == [i \in DOMAIN calls |-> calls[i].src[3] - calls[i].src[2]]

\* _limbs_square_to_out_toom_2: v_0[..n], xs_1 and xs_0.
Toom2OperandLens(xs_len) == CallLens(Toom2Calls(xs_len, CeilingHalf(xs_len)))

\* _limbs_square_to_out_toom_3: asm1_init, as2, xs_2, as1_init and xs_0.
Toom3OperandLens(xs_len) ==
    CallLens(Toom3Calls(xs_len, Toom3ChunkLen(xs_len), 2 * xs_len))

\* _limbs_square_to_out_toom_4: apx, amx, apx, apx and amx of m = n + 1 limbs, then
\* xs_0 and xs_3.
Toom4OperandLens(xs_len) ==
    [i \in 1..5 |-> Toom4ChunkLen(xs_len) + 1]
        \o <<Toom4ChunkLen(xs_len), xs_len - 3 * Toom4ChunkLen(xs_len)>>

\* _limbs_square_to_out_toom_6: v0 and v2 of m = n + 1 limbs at each of five pairs of
\* points, then xs[..n].
Toom6OperandLens(xs_len) ==
    Append([i \in 1..10 |-> Toom6ChunkLen(xs_len) + 1], Toom6ChunkLen(xs_len))

\* _limbs_square_to_out_toom_8: v0 and v2 of m = n + 1 limbs at each of seven pairs of
\* points, then xs[..n].
Toom8OperandLens(xs_len) ==
    Append([i \in 1..14 |-> Toom8ChunkLen(xs_len) + 1], Toom8ChunkLen(xs_len))

\* n_rem left as it is by an iteration.
DCLoopRemainingUnhalved(n_rem) == n_rem

\* _limbs_modular_div_divide_and_conquer_helper: "let lo = n_rem >> 1; let hi = n_rem -
\* lo; .. n_rem = hi;".
DCLoopRemaining(n_rem) == n_rem - FloorHalf(n_rem)

(***************************************************************************)
(* integer/arithmetic: Integer { sign, abs }, sign = true for values >= 0. *)
(* The Naturals are below 2^31 and their arithmetic is taken by value.     *)
(***************************************************************************)
integer_zero == Integer(TRUE, natural_zero)

\* -x for Integer: zero is left as it is.
integer_neg(x) == IF x.abs = natural_zero THEN x ELSE Integer(~x.sign, x.abs)

NaturalSum(x, y) == NaturalOf(NaturalValue(x) + NaturalValue(y))

\* x - y for Naturals, x >= y.
NaturalDifference(x, y) == NaturalOf(NaturalValue(x) - NaturalValue(y))

\* x.div_exact(y) for Naturals, y # 0 dividing x.
NaturalQuotient(x, y) == NaturalOf(NaturalValue(x) \div NaturalValue(y))

\* The match arms on signs and magnitudes that the impls of Sub and SubAssign share;
\* flipped is the sign the last arm gives.
IntegerSubArms(x, y, flipped) ==
    IF x.sign = (~y.sign /\ y.abs # natural_zero) THEN Integer(x.sign, NaturalSum(x.abs, y.abs))
    ELSE IF (x.sign /\ x.abs = y.abs) \/ NaturalValue(x.abs) > NaturalValue(y.abs)
        THEN Integer(x.sign, NaturalDifference(x.abs, y.abs))
    ELSE Integer(flipped, NaturalDifference(y.abs, x.abs))

\* As integer_sub with "sx && *ax == *ay || *ax > *ay" read as "*ax >= *ay".
integer_sub_unsigned_equal(impl, x, y, same_object) ==
    IF impl = "ref_ref" /\ same_object THEN integer_zero
    ELSE IF x.sign = (~y.sign /\ y.abs # natural_zero)
        THEN Integer(x.sign, NaturalSum(x.abs, y.abs))
    ELSE IF NaturalValue(x.abs) >= NaturalValue(y.abs)
        THEN Integer(x.sign, NaturalDifference(x.abs, y.abs))
    ELSE Integer(~y.sign, NaturalDifference(y.abs, x.abs))

\* x - y by the impl named: "ref_ref" is &x - &y, where same_object says that x and y
\* are one object; "assign" is x -= y, which x - y by value and x - &y call, the
\* swapped arm ending with the sign of other flipped; "ref_val" is &x - y, which
\* is -(y -= x).
integer_sub(impl, x, y, same_object) ==
    IF impl = "ref_ref"
        THEN (IF same_object THEN integer_zero
              ELSE IF x = integer_zero THEN integer_neg(y)
              ELSE IF y = integer_zero THEN x
              ELSE IntegerSubArms(x, y, ~y.sign))
    ELSE IF impl = "assign"
        THEN (IF y = integer_zero THEN x
              ELSE IF x = integer_zero THEN integer_neg(y)
              ELSE IntegerSubArms(x, y, ~y.sign))
    ELSE integer_neg(IF x = integer_zero THEN y
                     ELSE IF y = integer_zero THEN integer_neg(x)
                     ELSE IntegerSubArms(y, x, ~x.sign))

UnsignedAbs(other) == NaturalOf(IF other >= 0 THEN other ELSE -other)

\* &x + other and x += other for a SignedLimb other.
integer_add_signed_limb(x, other) ==
    IF other = 0 THEN x
    ELSE IF x.sign = (other > 0) THEN Integer(x.sign, NaturalSum(x.abs, UnsignedAbs(other)))
    ELSE IF (x.sign /\ x.abs = UnsignedAbs(other))
                \/ NaturalValue(x.abs) > NaturalValue(UnsignedAbs(other))
        THEN Integer(x.sign, NaturalDifference(x.abs, UnsignedAbs(other)))
    ELSE Integer(~x.sign, NaturalDifference(UnsignedAbs(other), x.abs))

\* x.div_exact(y) and x.div_exact_assign(y), by value and by reference.
integer_div_exact(x, y) ==
    Integer(x.sign = y.sign \/ NaturalQuotient(x.abs, y.abs) = natural_zero,
            NaturalQuotient(x.abs, y.abs))

\* "ref": (&x).div_exact(other); "assign": x.div_exact_assign(other), which
\* x.div_exact(other) calls; "limb_by_integer": other.div_exact(x).
integer_div_exact_signed_limb(impl, x, other) ==
    IF impl = "ref"
        THEN (IF NaturalQuotient(x.abs, UnsignedAbs(other)) = natural_zero THEN integer_zero
              ELSE Integer(x.sign = (other >= 0), NaturalQuotient(x.abs, UnsignedAbs(other))))
    ELSE IF impl = "assign"
        THEN Integer(x.sign = (other >= 0)
                         \/ NaturalQuotient(x.abs, UnsignedAbs(other)) = natural_zero,
                     NaturalQuotient(x.abs, UnsignedAbs(other)))
    ELSE IF NaturalQuotient(UnsignedAbs(other), x.abs) = natural_zero THEN integer_zero
    ELSE Integer((other >= 0) = x.sign, NaturalQuotient(UnsignedAbs(other), x.abs))

\* abs.shr_round(bits, RoundingMode::Ceiling)
NaturalShrCeiling(abs, bits) == NaturalOf((NaturalValue(abs) + Pow2(bits) - 1) \div Pow2(bits))

\* shr_unsigned_ref and shr_assign_unsigned.
integer_shr_unsigned(impl, x, bits) ==
    IF x.sign THEN Integer(TRUE, NaturalOf(NaturalValue(x.abs) \div Pow2(bits)))
    ELSE IF NaturalShrCeiling(x.abs, bits) = natural_zero
        THEN (IF impl = "ref" THEN integer_zero
              ELSE Integer(TRUE, NaturalShrCeiling(x.abs, bits)))
    ELSE Integer(FALSE, NaturalShrCeiling(x.abs, bits))

(***************************************************************************)
(* The calls.  The library keeps no state between calls: the state is one  *)
(* call frame, the operands the caller owns (arg), the routine invoked     *)
(* (op) and what the call left behind (res).  pc is "ready" before the     *)
(* call, "done" after a return and "panic" after a failed assertion.       *)
(***************************************************************************)
NoRes == <<>>

Return(name, value) ==
    /\ pc' = "done"
    /\ op' = name
    /\ res' = value
    /\ UNCHANGED arg

Panics(name) ==
    /\ pc' = "panic"
    /\ op' = name
    /\ UNCHANGED <<arg, res>>

\* A panic with its message.
PanicsSaying(name, message) ==
    /\ pc' = "panic"
    /\ op' = name
    /\ res' = [message |-> message]
    /\ UNCHANGED arg

\* A panic with its message, out being the output slice as the panic leaves it.
PanicsWith(name, message, out) ==
    /\ pc' = "panic"
    /\ op' = name
    /\ res' = [message |-> message, qs |-> out]
    /\ UNCHANGED arg

(***************************************************************************)
(* limbs_modular_invert_limb on sampled limbs: every low half up to        *)
(* MaxLowHalf (twice over every index of the table) under a few upper       *)
(* halves.                                                                 *)
(***************************************************************************)
MaxLowHalf == 511

UpperHalfSamples == {0, 1, 15258, 32768, 43690, HALF_MAX}

InvertLimbInputs ==
    {Limb(hi, lo) : hi \in UpperHalfSamples, lo \in 0..MaxLowHalf}
        \cup {Limb(15258, 51713), Limb(HALF_MAX, HALF_MAX), Limb(HALF_MAX, HALF_MAX - 1)}

InitInvertLimb ==
    /\ pc = "ready"
    /\ op = "none"
    /\ arg \in [x : InvertLimbInputs]
    /\ res = NoRes

\* The table lookup and the Newton doublings for any x, odd or even.
InvertLimbUnasserted ==
    /\ pc = "ready"
    /\ Return("limbs_modular_invert_limb", limbs_modular_invert_limb(arg.x))

\* assert!(x.odd()), then the table lookup and the Newton doublings.
InvertLimb ==
    /\ pc = "ready"
    /\ IF Odd(arg.x)
           THEN Return("limbs_modular_invert_limb", limbs_modular_invert_limb(arg.x))
           ELSE Panics("limbs_modular_invert_limb")

NextInvertLimb == InvertLimb

SpecInvertLimb == InitInvertLimb /\ [][NextInvertLimb]_vars

(***************************************************************************)
(* Exact division by one limb: the numerators are products q * d of a      *)
(* sampled quotient of up to MaxQuotientLen limbs and a sampled divisor,   *)
(* with and without the zero top limb; a zero divisor, an empty numerator  *)
(* and an output slice one limb short are the calls that panic.            *)
(***************************************************************************)
MaxQuotientLen == 2

LimbSamples ==
    {ZERO, ONE, LimbOf(2), LimbOf(3), Limb(21845, 21848), Limb(32768, 0),
     Limb(43690, 43691), LIMB_MAX}

DivisorSamples ==
    {ZERO, ONE, LimbOf(2), LimbOf(3), LimbOf(5), LimbOf(6), LimbOf(12), Limb(1, 0),
     Limb(15258, 51713), Limb(32768, 0), Limb(HALF_MAX, HALF_MAX - 1), LIMB_MAX}

SeqsUpTo(S, n) == UNION {[1..k -> S] : k \in 1..n}

\* The limbs of q * d: all Len(q) + 1 of them, and without the top one if it is 0.
Products(q, d) ==
    LET p    == limbs_mul_limb_to_out(q, d)
        full == p[1] \o <<p[2]>>
    IN  IF p[2] = ZERO THEN {full, p[1]} ELSE {full}

DivExactLimbNumerators(d) ==
    {<<>>} \cup UNION {Products(q, d) : q \in SeqsUpTo(LimbSamples, MaxQuotientLen)}

\* Output slices: as long as ns, one limb longer, one limb shorter.
OutSlices(n) == {[i \in 1..k |-> LIMB_MAX] : k \in {n, n + 1} \cup (IF n > 0 THEN {n - 1} ELSE {})}

InitDivExactLimb ==
    /\ pc = "ready"
    /\ op = "none"
    /\ \E d \in DivisorSamples : \E ns \in DivExactLimbNumerators(d) :
           \E out \in OutSlices(Len(ns)) : arg = [ns |-> ns, d |-> d, out |-> out]
    /\ res = NoRes

\* assert_ne!(d, 0); assert_ne!(len, 0); split_last().unwrap() on the route of 3.
DivExactLimbPanics == arg.d = ZERO \/ Len(arg.ns) = 0

DivExactLimb ==
    /\ pc = "ready"
    /\ IF DivExactLimbPanics
           THEN Panics("limbs_div_exact_limb")
           ELSE Return("limbs_div_exact_limb", limbs_div_exact_limb(arg.ns, arg.d))

\* out[..len] panics if out is shorter than ns.
DivExactLimbToOut ==
    /\ pc = "ready"
    /\ IF DivExactLimbPanics \/ Len(arg.out) < Len(arg.ns)
           THEN Panics("limbs_div_exact_limb_to_out")
           ELSE Return("limbs_div_exact_limb_to_out",
                       limbs_div_exact_limb_to_out(arg.out, arg.ns, arg.d))

DivExactLimbInPlace ==
    /\ pc = "ready"
    /\ IF DivExactLimbPanics
           THEN Panics("limbs_div_exact_limb_in_place")
           ELSE Return("limbs_div_exact_limb_in_place",
                       limbs_div_exact_limb_in_place(arg.ns, arg.d))

NextDivExactLimb == DivExactLimb \/ DivExactLimbToOut \/ DivExactLimbInPlace

SpecDivExactLimb == InitDivExactLimb /\ [][NextDivExactLimb]_vars

(***************************************************************************)
(* Sampled limb sequences: Pattern(n, a, b) walks PatternLimbs from b in   *)
(* steps of a, so that zero limbs, all-ones limbs, single bits and         *)
(* irregular limbs meet in every order of neighbours.                      *)
(***************************************************************************)
PatternLimbs ==
    <<ZERO, LIMB_MAX, ONE, Limb(43690, 43691), Limb(32768, 0), Limb(15258, 51713),
      LimbOf(2), Limb(HALF_MAX, HALF_MAX - 1)>>

Pattern(n, a, b) ==
    SubSeq([i \in 1..n |-> PatternLimbs[((a * i + b) % Len(PatternLimbs)) + 1]], 1, n)

MaxStride == 3

MaxOffset == 7

Patterns(n) == {Pattern(n, a, b) : a \in 0..MaxStride, b \in 0..MaxOffset}

OddLimbs == {ONE, LimbOf(3), Limb(15258, 51713), LIMB_MAX}

\* The patterns of n limbs with an odd limb put lowest.
OddPatterns(n) == {Put(p, 0, <<x>>) : p \in Patterns(n), x \in OddLimbs}

(***************************************************************************)
(* limbs_modular_invert on divisors of up to MaxInvertLen limbs, with the  *)
(* scratch slice limbs_modular_invert_scratch_len asks for; a divisor with *)
(* an even lowest limb is the call that panics.                            *)
(***************************************************************************)
MaxInvertLen == 11

InitModularInvert ==
    /\ pc = "ready"
    /\ op = "none"
    /\ \E n \in 1..MaxInvertLen : \E ds \in OddPatterns(n) \cup {Pattern(n, 1, 6)} :
           arg = [ds |-> ds, is |-> Zeros(n),
                  scratch |-> Zeros(limbs_modular_invert_scratch_len(n))]
    /\ res = NoRes

\* limbs_modular_invert_limb(ds[0]) asserts that ds[0] is odd.
ModularInvert ==
    /\ pc = "ready"
    /\ IF Odd(arg.ds[1])
           THEN Return("limbs_modular_invert",
                       limbs_modular_invert(arg.is, arg.ds, arg.scratch))
           ELSE Panics("limbs_modular_invert")

NextModularInvert == ModularInvert

SpecModularInvert == InitModularInvert /\ [][NextModularInvert]_vars

(***************************************************************************)
(* The three modular divisions on the same operands: divisors of 2 to      *)
(* MaxDivisorLen limbs, numerators from the divisor's length up to         *)
(* MaxNumeratorLen limbs (a numerator need not be a multiple).  A divisor  *)
(* with an even lowest limb is the call that panics.                       *)
(***************************************************************************)
MaxDivisorLen == 5

MaxNumeratorLen == 11

ModularDivisors(n) ==
    {Put(Pattern(n, a, a + 2), 0, <<x>>) : a \in 0..MaxStride, x \in {ONE, Limb(15258, 51713)}}
        \cup {Pattern(n, 1, 6)}

ModularNumerators(n) == {Pattern(n, a, 2 * a) : a \in 1..MaxStride} \cup {Pattern(n, 1, 1)}

InitModularDiv ==
    /\ pc = "ready"
    /\ op = "none"
    /\ \E d_len \in 2..MaxDivisorLen : \E n_len \in d_len..MaxNumeratorLen :
           \E ds \in ModularDivisors(d_len) : \E ns \in ModularNumerators(n_len) :
               arg = [ns |-> ns, ds |-> ds, qs |-> Zeros(n_len),
                      d_inv |-> WrappingNeg(limbs_modular_invert_limb(ds[1])),
                      scratch |-> Zeros(_limbs_modular_div_barrett_scratch_len(n_len, d_len))]
    /\ res = NoRes

\* assert!(ds[0].odd()) of the first two; limbs_modular_invert_limb's in Barrett.
ModularDivPanics == Even(arg.ds[1])

\* What a call that left r = <<qs, ns>> leaves to its caller.
QuotientAndNumerator(r) == [qs |-> r[1], ns |-> r[2]]

ModularDivSchoolbook ==
    /\ pc = "ready"
    /\ IF ModularDivPanics THEN Panics("_limbs_modular_div_schoolbook")
       ELSE Return("_limbs_modular_div_schoolbook",
                   QuotientAndNumerator(
                       _limbs_modular_div_schoolbook(arg.qs, arg.ns, arg.ds, arg.d_inv)))

ModularDivDivideAndConquer ==
    /\ pc = "ready"
    /\ IF ModularDivPanics THEN Panics("_limbs_modular_div_divide_and_conquer")
       ELSE Return("_limbs_modular_div_divide_and_conquer",
                   QuotientAndNumerator(
                       _limbs_modular_div_divide_and_conquer(arg.qs, arg.ns, arg.ds,
                                                             arg.d_inv)))

ModularDivBarrett ==
    /\ pc = "ready"
    /\ IF ModularDivPanics THEN Panics("_limbs_modular_div_barrett")
       ELSE Return("_limbs_modular_div_barrett",
                   [qs |-> _limbs_modular_div_barrett(arg.qs, arg.ns, arg.ds, arg.scratch),
                    ns |-> arg.ns])

NextModularDiv == ModularDivSchoolbook \/ ModularDivDivideAndConquer \/ ModularDivBarrett

SpecModularDiv == InitModularDiv /\ [][NextModularDiv]_vars

ModularDivOps ==
    {"_limbs_modular_div_schoolbook", "_limbs_modular_div_divide_and_conquer",
     "_limbs_modular_div_barrett"}

(***************************************************************************)
(* Exact division of limb sequences: a divisor of up to MaxExactDivisorLen *)
(* limbs with a nonzero top limb (its low limbs may be zero or even), a    *)
(* quotient of up to MaxExactQuotientLen limbs, and as numerator their     *)
(* product, in full and without a zero top limb.  arg.quotient is the      *)
(* quotient the numerator was made from; the routines never see it.  A     *)
(* divisor with a zero top limb is the call that panics.                   *)
(***************************************************************************)
MaxExactDivisorLen == 7

MaxExactQuotientLen == 7

TopLimbs == {ZERO, ONE, LIMB_MAX}

\* Pattern(n, 6, 2) starts with a zero limb and an even one.
ExactDivisors(n) ==
    {Put(p, n - 1, <<x>>) :
         p \in {Pattern(n, a, a * a) : a \in 0..MaxStride} \cup {Pattern(n, 6, 2)},
         x \in TopLimbs}

ExactQuotients(n) == {Pattern(n, a, 3 * a + 1) : a \in 0..MaxStride}

\* The limbs of ds * qs, all of them and, if the top limb is zero and enough limbs
\* are left, without it.
WithAndWithoutZeroTop(p, d_len) ==
    IF p[Len(p)] = ZERO /\ Len(p) > d_len THEN {p, SubSeq(p, 1, Len(p) - 1)} ELSE {p}

ExactNumerators(ds, qs) == WithAndWithoutZeroTop(limbs_mul_to_out(ds, qs), Len(ds))

InitDivExact ==
    /\ pc = "ready"
    /\ op = "none"
    /\ \E d_len \in 1..MaxExactDivisorLen : \E q_len \in 1..MaxExactQuotientLen :
           \E ds \in ExactDivisors(d_len) : \E q \in ExactQuotients(q_len) :
               \E ns \in ExactNumerators(ds, q) :
                   arg = [ns |-> ns, ds |-> ds, quotient |-> q,
                          qs |-> [k \in 1..Len(ns) - d_len + 1 |-> LIMB_MAX]]
    /\ res = NoRes

\* The three slices after a call that left r = <<qs, ns, ds>>, r = <<qs, ns>> and
\* ds untouched, r = <<qs, ds>> and ns untouched.
Operands(r) == [qs |-> r[1], ns |-> r[2], ds |-> r[3]]

OperandsWithDs(r, ds) == [qs |-> r[1], ns |-> r[2], ds |-> ds]

OperandsWithNs(r, ns) == [qs |-> r[1], ns |-> ns, ds |-> r[2]]

DivExact ==
    /\ pc = "ready"
    /\ IF DivExactAsserts(arg.ns, arg.ds)
           THEN Return("limbs_div_exact",
                       [qs |-> limbs_div_exact(arg.ns, arg.ds), ns |-> arg.ns,
                        ds |-> arg.ds])
           ELSE Panics("limbs_div_exact")

DivExactToOut ==
    /\ pc = "ready"
    /\ IF DivExactAsserts(arg.ns, arg.ds)
           THEN Return("limbs_div_exact_to_out",
                       Operands(limbs_div_exact_to_out(arg.qs, arg.ns, arg.ds)))
           ELSE PanicsWith("limbs_div_exact_to_out",
                           DivExactFailedAssertion(arg.ns, arg.ds), arg.qs)

DivExactToOutValRef ==
    /\ pc = "ready"
    /\ IF DivExactAsserts(arg.ns, arg.ds)
           THEN Return("limbs_div_exact_to_out_val_ref",
                       OperandsWithDs(
                           limbs_div_exact_to_out_val_ref(arg.qs, arg.ns, arg.ds), arg.ds))
           ELSE PanicsWith("limbs_div_exact_to_out_val_ref",
                           DivExactFailedAssertion(arg.ns, arg.ds), arg.qs)

DivExactToOutRefVal ==
    /\ pc = "ready"
    /\ IF DivExactAsserts(arg.ns, arg.ds)
           THEN Return("limbs_div_exact_to_out_ref_val",
                       OperandsWithNs(
                           limbs_div_exact_to_out_ref_val(arg.qs, arg.ns, arg.ds), arg.ns))
           ELSE PanicsWith("limbs_div_exact_to_out_ref_val",
                           DivExactFailedAssertion(arg.ns, arg.ds), arg.qs)

DivExactToOutRefRef ==
    /\ pc = "ready"
    /\ IF DivExactAsserts(arg.ns, arg.ds)
           THEN Return("limbs_div_exact_to_out_ref_ref",
                       [qs |-> limbs_div_exact_to_out_ref_ref(arg.qs, arg.ns, arg.ds),
                        ns |-> arg.ns, ds |-> arg.ds])
           ELSE PanicsWith("limbs_div_exact_to_out_ref_ref",
                           DivExactFailedAssertion(arg.ns, arg.ds), arg.qs)

NextDivExact ==
    \/ DivExact
    \/ DivExactToOut
    \/ DivExactToOutValRef
    \/ DivExactToOutRefVal
    \/ DivExactToOutRefRef

SpecDivExact == InitDivExact /\ [][NextDivExact]_vars

DivExactToOutOps ==
    {"limbs_div_exact_to_out", "limbs_div_exact_to_out_val_ref",
     "limbs_div_exact_to_out_ref_val", "limbs_div_exact_to_out_ref_ref"}

(***************************************************************************)
(* The entry points of exact division on operands of every kind: a divisor *)
(* with up to two zero limbs below an odd or even limb, a numerator that   *)
(* is the product, the product with one of its low limbs spoiled, or too   *)
(* short, an empty divisor and a divisor with a zero top limb.  qs has     *)
(* two limbs more than the quotient needs.                                 *)
(***************************************************************************)
EntryDivisors(n) ==
    {Zeros(z) \o Put(Pattern(n - z, a, 1), n - z - 1, <<x>>) :
         z \in 0..Min(2, n - 1), a \in {1, 5}, x \in {LimbOf(3), LIMB_MAX}}

\* <<ns, ds>> for the product p of ds and a quotient.
EntryOperands(p, ds) ==
    {<<p, ds>>, <<Slice(p, 0, Len(ds) - 1), ds>>, <<p, <<>>>>,
     <<p \o <<ZERO>>, ds \o <<ZERO>>>>}
        \cup {<<Set(p, j - 1, ONE), ds>> : j \in 1..slice_leading_zeros(ds)}

InitDivExactEntry ==
    /\ pc = "ready"
    /\ op = "none"
    /\ \E d_len \in 1..MaxExactDivisorLen : \E q_len \in 1..MaxExactQuotientLen :
           \E ds \in EntryDivisors(d_len) :
               \E o \in EntryOperands(limbs_mul_to_out(ds, Pattern(q_len, 1, 4)), ds) :
                   arg = [ns |-> o[1], ds |-> o[2], quotient |-> Pattern(q_len, 1, 4),
                          qs |-> Pattern(Max(Len(o[1]) - Len(o[2]) + 1, 0) + 2, 3, 2)]
    /\ res = NoRes

SpecDivExactEntry == InitDivExactEntry /\ [][NextDivExact]_vars

\* xs as n limbs, if the limbs it loses are zero.
Resized(xs, n) ==
    IF Len(xs) <= n THEN xs \o Zeros(n - Len(xs))
    ELSE IF slice_test_zero(From(xs, n)) THEN Slice(xs, 0, n) ELSE Panic

(***************************************************************************)
(* Exact division of Naturals: d and q are sampled Naturals, Small and     *)
(* Large of up to MaxNaturalLen limbs, and n is their product.  arg.same   *)
(* says that n and d are one Natural handed over by two references, which  *)
(* only the form that takes both by reference allows.  d = 0 is the call   *)
(* that panics.                                                            *)
(***************************************************************************)
MaxNaturalLen == 6

LargeSamples(n) ==
    {Large(Put(Pattern(n, a, a + 1), n - 1, <<x>>)) : a \in 1..MaxStride, x \in {ONE, LIMB_MAX}}

NaturalSamples ==
    {Small(x) : x \in LimbSamples} \cup UNION {LargeSamples(n) : n \in 2..MaxNaturalLen}

\* Natural * Natural (natural::arithmetic::mul).
NaturalMul(x, y) == from_owned_limbs_asc(limbs_mul_to_out(LimbsOf(x), LimbsOf(y)))

InitNaturalDivExact ==
    /\ pc = "ready"
    /\ op = "none"
    /\ \/ \E d \in NaturalSamples : \E q \in NaturalSamples :
              arg = [n |-> NaturalMul(d, q), d |-> d, q |-> q, same |-> FALSE]
       \/ \E d \in NaturalSamples :
              arg = [n |-> d, d |-> d, q |-> natural_one, same |-> TRUE]
    /\ res = NoRes

NaturalDivExactValVal ==
    /\ pc = "ready"
    /\ ~arg.same
    /\ IF arg.d = natural_zero THEN PanicsSaying("div_exact_val_val", "division by zero")
       ELSE Return("div_exact_val_val", div_exact_val_val(arg.n, arg.d))

NaturalDivExactValRef ==
    /\ pc = "ready"
    /\ ~arg.same
    /\ IF arg.d = natural_zero THEN PanicsSaying("div_exact_val_ref", "division by zero")
       ELSE Return("div_exact_val_ref", div_exact_val_ref(arg.n, arg.d))

NaturalDivExactRefVal ==
    /\ pc = "ready"
    /\ ~arg.same
    /\ IF arg.d = natural_zero THEN PanicsSaying("div_exact_ref_val", "division by zero")
       ELSE Return("div_exact_ref_val", div_exact_ref_val(arg.n, arg.d))

NaturalDivExactRefRef ==
    /\ pc = "ready"
    /\ IF arg.d = natural_zero THEN PanicsSaying("div_exact_ref_ref", "division by zero")
       ELSE Return("div_exact_ref_ref", div_exact_ref_ref(arg.n, arg.d, arg.same))

NaturalDivExactAssignVal ==
    /\ pc = "ready"
    /\ ~arg.same
    /\ IF arg.d = natural_zero THEN PanicsSaying("div_exact_assign_val", "division by zero")
       ELSE Return("div_exact_assign_val", div_exact_assign_val(arg.n, arg.d))

NaturalDivExactAssignRef ==
    /\ pc = "ready"
    /\ ~arg.same
    /\ IF arg.d = natural_zero THEN PanicsSaying("div_exact_assign_ref", "division by zero")
       ELSE Return("div_exact_assign_ref", div_exact_assign_ref(arg.n, arg.d))

NextNaturalDivExact ==
    \/ NaturalDivExactValVal
    \/ NaturalDivExactValRef
    \/ NaturalDivExactRefVal
    \/ NaturalDivExactRefRef
    \/ NaturalDivExactAssignVal
    \/ NaturalDivExactAssignRef

SpecNaturalDivExact == InitNaturalDivExact /\ [][NextNaturalDivExact]_vars

NaturalDivExactOps ==
    {"div_exact_val_val", "div_exact_val_ref", "div_exact_ref_val", "div_exact_ref_ref",
     "div_exact_assign_val", "div_exact_assign_ref"}

(***************************************************************************)
(* _limbs_mul_toom_interpolate_5_points on exact evaluations.  xs and ys   *)
(* are two chunks of k limbs and a top chunk of s and of t limbs, the      *)
(* coefficients of two polynomials of degree 2; f is their product (their  *)
(* square when ys = xs).  The evaluations are laid out as                  *)
(* _limbs_mul_greater_to_out_toom_33 and _limbs_square_to_out_toom_3 leave *)
(* them: f(0) in c[..2k], f(1) in c[2k..4k + 1], f(inf) above c[4k] with   *)
(* its lowest limb passed as v_inf_0, f(2) in v_2 and |f(-1)| in v_neg_1.  *)
(***************************************************************************)
MaxChunkLen == 3

Pad(xs, n) == xs \o Zeros(n - Len(xs))

\* The chunks <<xs_0, xs_1, xs_2>> of xs.
Chunks(xs, k) == <<Slice(xs, 0, k), Slice(xs, k, 2 * k), From(xs, 2 * k)>>

\* xs_0 + xs_2, xs_0 + xs_1 + xs_2 and xs_0 + 2 * xs_1 + 4 * xs_2, in k + 1 limbs.
EvenPart(a, k) == limbs_add_same_length_to_out(Pad(a[1], k + 1), Pad(a[3], k + 1))[1]

EvalAt1(a, k) == limbs_add_same_length_to_out(EvenPart(a, k), Pad(a[2], k + 1))[1]

EvalAt2(a, k) ==
    limbs_add_same_length_to_out(
        limbs_add_same_length_to_out(Pad(a[1], k + 1),
                                     limbs_shl_to_out(Pad(a[2], k + 1), 1)[1])[1],
        limbs_shl_to_out(Pad(a[3], k + 1), 2)[1])[1]

\* <<|xs_0 - xs_1 + xs_2|, whether xs_0 - xs_1 + xs_2 < 0>>
EvalAtNeg1(a, k) ==
    IF limbs_cmp_same_length(EvenPart(a, k), Pad(a[2], k + 1)) = "Less"
        THEN <<limbs_sub_same_length_to_out(Pad(a[2], k + 1), EvenPart(a, k))[1], TRUE>>
    ELSE <<limbs_sub_same_length_to_out(EvenPart(a, k), Pad(a[2], k + 1))[1], FALSE>>

\* The low 2 * k + 1 limbs of x * y (all of it, for the evaluations above).
EvalProduct(x, y, k) == Slice(limbs_mul_to_out(x, y), 0, 2 * k + 1)

\* The call's arguments for the polynomials with chunks a and b.
Interpolate5Args(xs, ys, a, b, k) ==
    [c |-> limbs_mul_to_out(a[1], b[1]) \o EvalProduct(EvalAt1(a, k), EvalAt1(b, k), k)
               \o Tail(limbs_mul_to_out(a[3], b[3])),
     v_2 |-> EvalProduct(EvalAt2(a, k), EvalAt2(b, k), k),
     v_neg_1 |-> EvalProduct(EvalAtNeg1(a, k)[1], EvalAtNeg1(b, k)[1], k),
     k |-> k,
     two_r |-> Len(a[3]) + Len(b[3]),
     v_neg_1_neg |-> /\ EvalAtNeg1(a, k)[2] # EvalAtNeg1(b, k)[2]
                     /\ ~slice_test_zero(EvalAtNeg1(a, k)[1])
                     /\ ~slice_test_zero(EvalAtNeg1(b, k)[1]),
     v_inf_0 |-> Head(limbs_mul_to_out(a[3], b[3])),
     product |-> limbs_mul_to_out(xs, ys)]

SecondOperands(xs, n) == {xs} \cup {Pattern(n, a, a + 1) : a \in 0..MaxStride}

InitInterpolate5 ==
    /\ pc = "ready"
    /\ op = "none"
    /\ \E k \in 1..MaxChunkLen : \E s \in 1..k : \E t \in 1..k :
           \E xs \in Patterns(2 * k + s) :
               \E ys \in IF s = t THEN SecondOperands(xs, 2 * k + t)
                         ELSE SecondOperands(Pattern(2 * k + t, 1, 0), 2 * k + t) :
                   arg = Interpolate5Args(xs, ys, Chunks(xs, k), Chunks(ys, k), k)
    /\ res = NoRes

Interpolate5Points ==
    /\ pc = "ready"
    /\ Return("_limbs_mul_toom_interpolate_5_points",
              _limbs_mul_toom_interpolate_5_points(arg.c, arg.v_2, arg.v_neg_1, arg.k,
                                                   arg.two_r, arg.v_neg_1_neg,
                                                   arg.v_inf_0)[1])

NextInterpolate5 == Interpolate5Points

SpecInterpolate5 == InitInterpolate5 /\ [][NextInterpolate5]_vars

(***************************************************************************)
(* Squaring of limb sequences: xs of 1 to MaxSquareLen limbs, out of       *)
(* 2 * xs.len() limbs and one more, filled beforehand with limbs that are  *)
(* not those of the square.  arg.product is xs * xs by the library's       *)
(* multiplication.  The schoolbook square is called on the same operands;  *)
(* above SQR_TOOM2_THRESHOLD limbs it is the call that panics.             *)
(***************************************************************************)
MaxSquareLen == 9

\* Every length up to MaxSquareLen, and the first length of Toom-4.
SquareLens ==
    (1..MaxSquareLen)
        \cup {SQR_TOOM4_THRESHOLD}

SquareOperands(n) ==
    IF n <= MaxSquareLen THEN {Pattern(n, a, b) : a \in 1..MaxStride, b \in {0, 1, 5}}
    ELSE {Pattern(n, 1, 1)}

InitSquare ==
    /\ pc = "ready"
    /\ op = "none"
    /\ \E n \in SquareLens : \E xs \in SquareOperands(n) :
           arg = [xs |-> xs, out |-> Pattern(2 * n + 1, 3, 2),
                  product |-> limbs_mul_to_out(xs, xs)]
    /\ res = NoRes

LimbsSquareToOut ==
    /\ pc = "ready"
    /\ Return("limbs_square_to_out", limbs_square_to_out(arg.out, arg.xs))

LimbsSquare ==
    /\ pc = "ready"
    /\ Return("limbs_square", limbs_square(arg.xs))

SquareToOutBasecase ==
    /\ pc = "ready"
    /\ IF Len(arg.xs) > SQR_TOOM2_THRESHOLD THEN Panics("_limbs_square_to_out_basecase")
       ELSE Return("_limbs_square_to_out_basecase",
                   _limbs_square_to_out_basecase(arg.out, arg.xs))

NextSquare ==
    \/ LimbsSquareToOut
    \/ LimbsSquare
    \/ SquareToOutBasecase

SpecSquare == InitSquare /\ [][NextSquare]_vars

(***************************************************************************)
(* The lengths of the Toom squaring routines: a slice of arg.xs_len limbs  *)
(* is asked about by _limbs_square_to_out_toom_k_input_size_valid, or       *)
(* handed to _limbs_square_to_out_toom_k, whose call is followed as far as  *)
(* its size assertions: it panics there (pc = "panic") or goes on to the   *)
(* evaluation (pc = "asserted").                                           *)
(***************************************************************************)
MaxToomLen == 66

InitSquareSizes ==
    /\ pc = "ready"
    /\ op = "none"
    /\ \E xs_len \in 0..MaxToomLen : arg = [xs_len |-> xs_len]
    /\ res = NoRes

SizeAsserted(name, passes) ==
    /\ pc' = IF passes THEN "asserted" ELSE "panic"
    /\ op' = name
    /\ UNCHANGED <<arg, res>>

Toom2Sizes ==
    /\ pc = "ready"
    /\ SizeAsserted("_limbs_square_to_out_toom_2", Toom2SizeAsserts(arg.xs_len))

Toom3Sizes ==
    /\ pc = "ready"
    /\ SizeAsserted("_limbs_square_to_out_toom_3", Toom3SizeAsserts(arg.xs_len))

Toom4Sizes ==
    /\ pc = "ready"
    /\ SizeAsserted("_limbs_square_to_out_toom_4", Toom4SizeAsserts(arg.xs_len))

Toom6Sizes ==
    /\ pc = "ready"
    /\ SizeAsserted("_limbs_square_to_out_toom_6", Toom6SizeAsserts(arg.xs_len))

Toom8Sizes ==
    /\ pc = "ready"
    /\ SizeAsserted("_limbs_square_to_out_toom_8", Toom8SizeAsserts(arg.xs_len))

Toom3InputSizeValid ==
    /\ pc = "ready"
    /\ Return("_limbs_square_to_out_toom_3_input_size_valid",
              _limbs_square_to_out_toom_3_input_size_valid(arg.xs_len))

Toom4InputSizeValid ==
    /\ pc = "ready"
    /\ Return("_limbs_square_to_out_toom_4_input_size_valid",
              _limbs_square_to_out_toom_4_input_size_valid(arg.xs_len))

Toom6InputSizeValid ==
    /\ pc = "ready"
    /\ Return("_limbs_square_to_out_toom_6_input_size_valid",
              _limbs_square_to_out_toom_6_input_size_valid(arg.xs_len))

Toom8InputSizeValid ==
    /\ pc = "ready"
    /\ Return("_limbs_square_to_out_toom_8_input_size_valid",
              _limbs_square_to_out_toom_8_input_size_valid(arg.xs_len))

NextSquareSizes ==
    \/ Toom2Sizes
    \/ Toom3Sizes
    \/ Toom4Sizes
    \/ Toom6Sizes
    \/ Toom8Sizes
    \/ Toom3InputSizeValid
    \/ Toom4InputSizeValid
    \/ Toom6InputSizeValid
    \/ Toom8InputSizeValid

SpecSquareSizes == InitSquareSizes /\ [][NextSquareSizes]_vars

(***************************************************************************)
(* Squaring of Naturals: Small values (with 0, 1, 123 and the values about *)
(* 2^16, where the square starts to need a second limb) and Large values   *)
(* of up to MaxSquareNaturalLen limbs.  arg.product is x * x by the        *)
(* library's multiplication.                                               *)
(***************************************************************************)
MaxSquareNaturalLen == 9

SquareSamples ==
    {Small(x) : x \in LimbSamples \cup {LimbOf(123), LimbOf(65535), Limb(1, 0)}}
        \cup UNION {LargeSamples(n) : n \in 2..MaxSquareNaturalLen}

InitNaturalSquare ==
    /\ pc = "ready"
    /\ op = "none"
    /\ \E x \in SquareSamples : arg = [x |-> x, product |-> NaturalMul(x, x)]
    /\ res = NoRes

NaturalSquareVal ==
    /\ pc = "ready"
    /\ Return("square_val", square_val(arg.x))

NaturalSquareRef ==
    /\ pc = "ready"
    /\ Return("square_ref", square_ref(arg.x))

NaturalSquareAssign ==
    /\ pc = "ready"
    /\ Return("square_assign", square_assign(arg.x))

NextNaturalSquare ==
    \/ NaturalSquareVal
    \/ NaturalSquareRef
    \/ NaturalSquareAssign

SpecNaturalSquare == InitNaturalSquare /\ [][NextNaturalSquare]_vars

NaturalSquareOps == {"square_val", "square_ref", "square_assign"}

(***************************************************************************)
(* C3: for every odd limb x, limbs_modular_invert_limb(x) returns y with   *)
(* x * y = 1 modulo 2^32; it returns 2863311531 for x = 3 and 2211001857   *)
(* for x = 1000000001.                                                     *)
(***************************************************************************)
C3_InvertLimbIsInverse ==
    (pc = "done" /\ op = "limbs_modular_invert_limb") =>
        /\ WrappingMul(arg.x, res) = ONE
        /\ (arg.x = LimbOf(3) => res = Limb(43690, 43691))
        /\ (arg.x = Limb(15258, 51713) => res = Limb(33737, 13825))

C3_Witness ==
    /\ pc = "done"
    /\ op = "limbs_modular_invert_limb"
    /\ arg.x = Limb(15258, 51713)
    /\ res = Limb(33737, 13825)

DivExactLimbOps ==
    {"limbs_div_exact_limb", "limbs_div_exact_limb_to_out", "limbs_div_exact_limb_in_place"}

\* The quotient limbs a finished single-limb call produced.
DivExactLimbQuotient == Slice(res, 0, Len(arg.ns))

(***************************************************************************)
(* C7: for every nonzero limb d and nonempty N that is a multiple of d,    *)
(* limbs_div_exact_limb, limbs_div_exact_limb_to_out and                   *)
(* limbs_div_exact_limb_in_place produce N.len() limbs whose value is N/d  *)
(* (multiplying them back by d gives N with no carry out); for d = 3 the   *)
(* limbs are those of the generic routine; [8, 7] by 3 is [1431655768, 2]. *)
(***************************************************************************)
C7_DivExactLimbIsQuotient ==
    (pc = "done" /\ op \in DivExactLimbOps) =>
        /\ Len(res) = (IF op = "limbs_div_exact_limb_to_out" THEN Len(arg.out)
                                                             ELSE Len(arg.ns))
        /\ limbs_mul_limb_to_out(DivExactLimbQuotient, arg.d) = <<arg.ns, ZERO>>
        /\ From(res, Len(arg.ns)) = From(arg.out, Len(arg.ns))
               \/ op # "limbs_div_exact_limb_to_out"
        /\ arg.d = LimbOf(3) =>
               DivExactLimbQuotient =
                   _limbs_div_exact_limb_to_out_no_special_3(arg.ns, arg.ns, arg.d)
        /\ (arg.d = LimbOf(3) /\ arg.ns = <<LimbOf(8), LimbOf(7)>>) =>
               DivExactLimbQuotient = <<Limb(21845, 21848), LimbOf(2)>>

C7_Witness ==
    /\ pc = "done"
    /\ op = "limbs_div_exact_limb_in_place"
    /\ arg.d = LimbOf(3)
    /\ arg.ns = <<LimbOf(8), LimbOf(7)>>
    /\ res = <<Limb(21845, 21848), LimbOf(2)>>

(***************************************************************************)
(* C4: for every D of n >= 1 limbs with an odd lowest limb,                *)
(* limbs_modular_invert, given limbs_modular_invert_scratch_len(n) limbs   *)
(* of scratch, writes n limbs I with D * I = 1 modulo 2^(32 * n), below    *)
(* the Newton threshold and above it.                                      *)
(***************************************************************************)
C4_ModularInvertIsInverse ==
    (pc = "done" /\ op = "limbs_modular_invert") =>
        /\ Len(res) = Len(arg.ds)
        /\ limbs_mul_low_same_length(arg.ds, res) = Put(Zeros(Len(arg.ds)), 0, <<ONE>>)

C4_Witness ==
    /\ pc = "done"
    /\ op = "limbs_modular_invert"
    /\ Len(arg.ds) = MaxInvertLen
    /\ Len(ModularInvertSizes(Len(arg.ds), <<>>)[1]) = 2
    /\ limbs_mul_low_same_length(arg.ds, res) = Put(Zeros(Len(arg.ds)), 0, <<ONE>>)

(***************************************************************************)
(* C5: for every D with an odd lowest limb and d_len >= 2 and every N with *)
(* n_len >= d_len, _limbs_modular_div_schoolbook,                          *)
(* _limbs_modular_div_divide_and_conquer and _limbs_modular_div_barrett    *)
(* write the same n_len quotient limbs, the Q with Q * D = N modulo        *)
(* 2^(32 * n_len).                                                         *)
(***************************************************************************)
C5_ModularDivsAgree ==
    (pc = "done" /\ op \in ModularDivOps) =>
        LET n_len == Len(arg.ns)
            ds    == arg.ds \o Zeros(n_len - Len(arg.ds))
        IN  /\ Len(res.qs) = n_len
            /\ res.qs = _limbs_modular_div_schoolbook(arg.qs, arg.ns, arg.ds, arg.d_inv)[1]
            /\ limbs_mul_low_same_length(res.qs, ds) = arg.ns

C5_Witness ==
    /\ pc = "done"
    /\ op = "_limbs_modular_div_barrett"
    /\ Len(arg.ds) = MaxDivisorLen
    /\ Len(arg.ns) = MaxNumeratorLen
    /\ res.qs = _limbs_modular_div_divide_and_conquer(arg.qs, arg.ns, arg.ds, arg.d_inv)[1]
    /\ res.qs # arg.qs

(***************************************************************************)
(* C1: for every D with a nonzero top limb (low limbs may be zero or even) *)
(* and every Q, with N the limbs of D * Q and N.len() >= D.len(),          *)
(* limbs_div_exact(N, D) returns exactly N.len() - D.len() + 1 limbs whose *)
(* value is Q.                                                             *)
(***************************************************************************)
C1_DivExactIsQuotient ==
    (pc = "done" /\ op = "limbs_div_exact") =>
        /\ Len(res.qs) = Len(arg.ns) - Len(arg.ds) + 1
        /\ res.qs = Resized(arg.quotient, Len(arg.ns) - Len(arg.ds) + 1)

C1_Witness ==
    /\ pc = "done"
    /\ op = "limbs_div_exact"
    /\ Len(arg.ds) = MaxExactDivisorLen
    /\ Len(arg.quotient) = MaxExactQuotientLen
    /\ arg.ds[1] = ZERO
    /\ Even(arg.ds[2]) /\ arg.ds[2] # ZERO
    /\ ~slice_test_zero(arg.quotient)
    /\ res.qs = Resized(arg.quotient, Len(arg.ns) - Len(arg.ds) + 1)

(***************************************************************************)
(* C6: for the same N and D, limbs_div_exact_to_out,                       *)
(* limbs_div_exact_to_out_val_ref, limbs_div_exact_to_out_ref_val and      *)
(* limbs_div_exact_to_out_ref_ref write identical limbs to qs: whichever   *)
(* of them was called, qs is what the variant that overwrites both         *)
(* operands and the variant that copies both leave.                        *)
(***************************************************************************)
C6_DivExactVariantsAgree ==
    (pc = "done" /\ op \in DivExactToOutOps) =>
        /\ res.qs = limbs_div_exact_to_out(arg.qs, arg.ns, arg.ds)[1]
        /\ res.qs = limbs_div_exact_to_out_ref_ref(arg.qs, arg.ns, arg.ds)

C6_Witness ==
    /\ pc = "done"
    /\ op = "limbs_div_exact_to_out_val_ref"
    /\ Len(arg.ds) >= MU_BDIV_Q_THRESHOLD
    /\ Len(arg.quotient) >= MU_BDIV_Q_THRESHOLD
    /\ Even(arg.ds[1]) /\ arg.ds[1] # ZERO
    /\ res.ns # arg.ns
    /\ res.qs = limbs_div_exact_to_out_ref_ref(arg.qs, arg.ns, arg.ds)
    /\ res.qs # arg.qs

(***************************************************************************)
(* C9: for all Naturals q and d with d # 0, each of the six forms of exact *)
(* division applied to n = d * q and d yields q in normal form, for Small  *)
(* and Large operands and for n = 0; two references to one nonzero Natural *)
(* yield 1.                                                                *)
(***************************************************************************)
C9_NaturalDivExactIsQuotient ==
    (pc = "done" /\ op \in NaturalDivExactOps) =>
        /\ res = arg.q
        /\ Normalised(res)
        /\ arg.same => res = natural_one

C9_Witness ==
    /\ pc = "done"
    /\ op = "div_exact_assign_ref"
    /\ ~IsSmall(arg.n)
    /\ IsSmall(arg.d)
    /\ IsSmall(arg.q)
    /\ arg.d # natural_one
    /\ res = arg.q

(***************************************************************************)
(* C8: given the exact evaluations of the degree-4 product (or square) f   *)
(* of polynomials with k-limb chunks, laid out as documented, with         *)
(* v_neg_1_neg set iff f(-1) < 0, _limbs_mul_toom_interpolate_5_points     *)
(* leaves in c exactly f(2^(32 * k)), the product of the operands, for     *)
(* either value of the sign flag.                                          *)
(***************************************************************************)
C8_Interpolate5PointsRecomposes ==
    (pc = "done" /\ op = "_limbs_mul_toom_interpolate_5_points") => res = arg.product

C8_Witness ==
    /\ pc = "done"
    /\ op = "_limbs_mul_toom_interpolate_5_points"
    /\ arg.v_neg_1_neg
    /\ arg.two_r > arg.k + 1
    /\ res = arg.product

(***************************************************************************)
(* C10: for every Natural x, x.square(), (&x).square() and                 *)
(* x.square_assign() all yield x * x in normal form (Small below 2^32,     *)
(* otherwise Large with a nonzero top limb); 0 and 1 are left unchanged    *)
(* and 123 yields 15129.                                                   *)
(***************************************************************************)
C10_NaturalSquareIsProduct ==
    (pc = "done" /\ op \in NaturalSquareOps) =>
        /\ res = arg.product
        /\ Normalised(res)
        /\ arg.x \in {natural_zero, natural_one} => res = arg.x
        /\ arg.x = Small(LimbOf(123)) => res = Small(LimbOf(15129))

C10_Witness ==
    /\ pc = "done"
    /\ op = "square_assign"
    /\ ~IsSmall(arg.x)
    /\ Len(res[2]) = 2 * Len(arg.x[2]) - 1
    /\ res = arg.product

InitDivExactCalls == InitNaturalDivExact \/ InitDivExactLimb \/ InitDivExactEntry

NextDivExactCalls ==
    \/ ("same" \in DOMAIN arg /\ NextNaturalDivExact)
    \/ ("out" \in DOMAIN arg /\ NextDivExactLimb)
    \/ ("ds" \in DOMAIN arg /\ NextDivExact)

SpecDivExactCalls == InitDivExactCalls /\ [][NextDivExactCalls]_vars

(***************************************************************************)
(* C11: for D with a nonzero top limb and z >= 1 zero limbs at its low     *)
(* end, and N at least as long as D: if one of the z low limbs of N is     *)
(* nonzero, each limbs_div_exact_to_out* entry point fails its "division   *)
(* not exact" assertion with qs as it was; if they are all zero, qs is     *)
(* what the division of N without its z low limbs by D without its z low   *)
(* limbs leaves, the quotient.                                             *)
(***************************************************************************)
C11_ZeroLimbsAssertedThenStripped ==
    (/\ pc # "ready"
     /\ op \in DivExactToOutOps
     /\ Len(arg.ds) # 0
     /\ Len(arg.ns) >= Len(arg.ds)
     /\ arg.ds[Len(arg.ds)] # ZERO
     /\ slice_leading_zeros(arg.ds) >= 1) =>
        IF ~slice_test_zero(Slice(arg.ns, 0, slice_leading_zeros(arg.ds)))
            THEN /\ pc = "panic"
                 /\ res.message = "division not exact"
                 /\ res.qs = arg.qs
        ELSE /\ pc = "done"
             /\ res.qs = limbs_div_exact_to_out_ref_ref(
                              arg.qs, From(arg.ns, slice_leading_zeros(arg.ds)),
                              From(arg.ds, slice_leading_zeros(arg.ds)))
             /\ Slice(res.qs, 0, QLen(arg.ns, arg.ds))
                    = Resized(arg.quotient, QLen(arg.ns, arg.ds))

C11_Witness ==
    /\ pc = "panic"
    /\ op = "limbs_div_exact_to_out_val_ref"
    /\ slice_leading_zeros(arg.ds) = 2
    /\ arg.ns[1] = ZERO
    /\ arg.ns[2] # ZERO
    /\ res.message = "division not exact"
    /\ res.qs = arg.qs

(***************************************************************************)
(* C12: exact division returns no value for a zero divisor or an empty     *)
(* operand.  The six Natural forms panic with "division by zero" whenever  *)
(* d = 0, for every dividend, 0 and d itself by reference included; the    *)
(* three single-limb routines panic when d = 0 or ns is empty, for d = 3   *)
(* too; the limbs_div_exact_to_out* entry points panic, qs untouched, when *)
(* ds is empty, ns is shorter than ds or the top limb of ds is zero.       *)
(***************************************************************************)
C12_NoValueForZeroDivisorOrEmptyOperand ==
    /\ (pc # "ready" /\ op \in NaturalDivExactOps /\ arg.d = natural_zero) =>
           (pc = "panic" /\ res.message = "division by zero")
    /\ (pc # "ready" /\ op \in DivExactLimbOps /\ (arg.d = ZERO \/ arg.ns = <<>>)) =>
           pc = "panic"
    /\ (/\ pc # "ready"
        /\ op \in DivExactToOutOps
        /\ \/ arg.ds = <<>>
           \/ Len(arg.ns) < Len(arg.ds)
           \/ arg.ds[Len(arg.ds)] = ZERO) =>
           /\ pc = "panic"
           /\ res.message \in {"d_len != 0", "n_len >= d_len", "ds[d_len - 1] != 0"}
           /\ res.qs = arg.qs

C12_Witness ==
    /\ pc = "panic"
    /\ op = "div_exact_ref_ref"
    /\ arg.same
    /\ arg.d = natural_zero
    /\ res.message = "division by zero"

(***************************************************************************)
(* C13: for every even limb x, 0 included, limbs_modular_invert_limb(x)    *)
(* panics and returns no value.                                            *)
(***************************************************************************)
C13_InvertLimbPanicsOnEven ==
    (pc # "ready" /\ op = "limbs_modular_invert_limb" /\ Even(arg.x)) =>
        (pc = "panic" /\ res = NoRes)

C13_Witness ==
    /\ pc = "panic"
    /\ op = "limbs_modular_invert_limb"
    /\ arg.x = ZERO
    /\ res = NoRes

(***************************************************************************)
(* C14: a division into an output slice writes the quotient prefix only:    *)
(* the limbs_div_exact_to_out* entry points leave every limb of qs from     *)
(* ns.len() - ds.len() + 1 on as it was, and limbs_div_exact_limb_to_out,   *)
(* which takes the route of limbs_div_exact_3_to_out for the divisor 3,     *)
(* leaves every limb of out from ns.len() on as it was; the slice keeps its *)
(* length.  This is so for the single-limb, schoolbook, divide-and-conquer  *)
(* and Barrett divisions alike.                                             *)
(***************************************************************************)
C14_OnlyQuotientPrefixWritten ==
    /\ (pc = "done" /\ op \in DivExactToOutOps) =>
           /\ Len(res.qs) = Len(arg.qs)
           /\ From(res.qs, QLen(arg.ns, arg.ds)) = From(arg.qs, QLen(arg.ns, arg.ds))
    /\ (pc = "done" /\ op = "limbs_div_exact_limb_to_out") =>
           /\ Len(res) = Len(arg.out)
           /\ From(res, Len(arg.ns)) = From(arg.out, Len(arg.ns))

\* A Barrett division has written a quotient below two limbs that are not zero.
C14_Witness ==
    /\ pc = "done"
    /\ op = "limbs_div_exact_to_out"
    /\ slice_leading_zeros(arg.ds) = 0
    /\ Len(arg.ds) >= MU_BDIV_Q_THRESHOLD
    /\ QLen(arg.ns, arg.ds) >= MU_BDIV_Q_THRESHOLD
    /\ Len(arg.qs) = QLen(arg.ns, arg.ds) + 2
    /\ From(res.qs, QLen(arg.ns, arg.ds)) # Zeros(2)
    /\ Slice(res.qs, 0, QLen(arg.ns, arg.ds)) # Slice(arg.qs, 0, QLen(arg.ns, arg.ds))

(***************************************************************************)
(* C15: for k = 3, 4, 6 and 8, _limbs_square_to_out_toom_k_input_size_valid *)
(* answers true for exactly the lengths with which                          *)
(* _limbs_square_to_out_toom_k gets past its size assertions; the smallest  *)
(* lengths it accepts are 3, 4, 18 and 40; _limbs_square_to_out_toom_2     *)
(* gets past its assertion for exactly the lengths of 2 and more.           *)
(***************************************************************************)
ToomSizeAsserts(k, xs_len) ==
    IF k = 3 THEN Toom3SizeAsserts(xs_len)
    ELSE IF k = 4 THEN Toom4SizeAsserts(xs_len)
    ELSE IF k = 6 THEN Toom6SizeAsserts(xs_len)
    ELSE Toom8SizeAsserts(xs_len)

ToomInputSizeValid(k, xs_len) ==
    IF k = 3 THEN _limbs_square_to_out_toom_3_input_size_valid(xs_len)
    ELSE IF k = 4 THEN _limbs_square_to_out_toom_4_input_size_valid(xs_len)
    ELSE IF k = 6 THEN _limbs_square_to_out_toom_6_input_size_valid(xs_len)
    ELSE _limbs_square_to_out_toom_8_input_size_valid(xs_len)

ToomRoutine(k) ==
    IF k = 3 THEN "_limbs_square_to_out_toom_3"
    ELSE IF k = 4 THEN "_limbs_square_to_out_toom_4"
    ELSE IF k = 6 THEN "_limbs_square_to_out_toom_6"
    ELSE "_limbs_square_to_out_toom_8"

ToomValidity(k) ==
    IF k = 3 THEN "_limbs_square_to_out_toom_3_input_size_valid"
    ELSE IF k = 4 THEN "_limbs_square_to_out_toom_4_input_size_valid"
    ELSE IF k = 6 THEN "_limbs_square_to_out_toom_6_input_size_valid"
    ELSE "_limbs_square_to_out_toom_8_input_size_valid"

ToomSmallestLen(k) == IF k = 3 THEN 3 ELSE IF k = 4 THEN 4 ELSE IF k = 6 THEN 18 ELSE 40

C15_ValidLengthsAreTheAssertedOnes ==
    /\ \A k \in {3, 4, 6, 8} :
           /\ (pc # "ready" /\ op = ToomRoutine(k)) =>
                  /\ (pc = "asserted") = ToomInputSizeValid(k, arg.xs_len)
                  /\ (pc = "panic") = ~ToomInputSizeValid(k, arg.xs_len)
                  /\ pc = "asserted" => arg.xs_len >= ToomSmallestLen(k)
           /\ (pc # "ready" /\ op = ToomValidity(k)) =>
                  /\ pc = "done"
                  /\ res = ToomSizeAsserts(k, arg.xs_len)
                  /\ res => arg.xs_len >= ToomSmallestLen(k)
                  /\ arg.xs_len = ToomSmallestLen(k) => res
    /\ (pc # "ready" /\ op = "_limbs_square_to_out_toom_2") =>
           /\ (pc = "asserted") = (arg.xs_len >= 2)
           /\ (pc = "panic") = (arg.xs_len < 2)

\* Toom-6 refuses 31 limbs, whose last chunk is of one limb: 10 * 6 + 3 > 62.
C15_Witness ==
    /\ pc = "panic"
    /\ op = "_limbs_square_to_out_toom_6"
    /\ arg.xs_len = 31
    /\ ~_limbs_square_to_out_toom_6_input_size_valid(31)
    /\ Toom6SizeAsserts(30)
    /\ Toom6SizeAsserts(32)

\* Toom-8 takes 40 limbs, its smallest length, in chunks of 5.
C15_WitnessSmallest ==
    /\ pc = "asserted"
    /\ op = "_limbs_square_to_out_toom_8"
    /\ arg.xs_len = 40
    /\ Toom8ChunkLen(40) = 5

(***************************************************************************)
(* Calls of mod_power_of_2_inverse for u8 (every x, every pow up to one    *)
(* above the width) and for u16 (sampled x with every pow), the calls that *)
(* fail an assertion included.                                             *)
(***************************************************************************)
MaxWordSamples == 40

WordSample(k) == (k * 4099 + 1) % Pow2(16)

ModPowerOf2InverseInputs ==
    {[width |-> 8, x |-> x, pow |-> pow] : x \in 0..(Pow2(8) - 1), pow \in 0..9}
        \cup {[width |-> 16, x |-> x, pow |-> pow] :
                  x \in {WordSample(k) : k \in 0..MaxWordSamples} \cup {Pow2(16) - 1},
                  pow \in 0..17}

InitModPowerOf2Inverse ==
    /\ pc = "ready"
    /\ op = "none"
    /\ arg \in ModPowerOf2InverseInputs
    /\ res = NoRes

ModPowerOf2InverseFast ==
    /\ pc = "ready"
    /\ IF ModPowerOf2InverseAsserts(arg.width, arg.x, arg.pow)
           THEN Return("mod_power_of_2_inverse_fast",
                       mod_power_of_2_inverse_fast(arg.x, arg.pow))
           ELSE Panics("mod_power_of_2_inverse_fast")

ModPowerOf2Inverse ==
    /\ pc = "ready"
    /\ IF ModPowerOf2InverseAsserts(arg.width, arg.x, arg.pow)
           THEN Return("mod_power_of_2_inverse", mod_power_of_2_inverse(arg.x, arg.pow))
           ELSE Panics("mod_power_of_2_inverse")

NextModPowerOf2Inverse ==
    \/ ModPowerOf2InverseFast
    \/ ModPowerOf2Inverse

SpecModPowerOf2Inverse == InitModPowerOf2Inverse /\ [][NextModPowerOf2Inverse]_vars

(***************************************************************************)
(* C16: for an unsigned x # 0 and a pow no greater than the width of the   *)
(* type with x < 2^pow, mod_power_of_2_inverse(x, pow) returns None when x *)
(* is even and otherwise Some(y) with y < 2^pow and x * y congruent to 1   *)
(* modulo 2^pow, also when pow is not a power of two and the last step of  *)
(* the iteration is made at pow itself.                                    *)
(***************************************************************************)
ProductModPow2(x, y, pow) ==
    (x * (y % 256) + ((x * (y \div 256)) % 256) * 256) % Pow2(pow)

C16_InverseModPowerOf2 ==
    (/\ pc # "ready"
     /\ op \in {"mod_power_of_2_inverse", "mod_power_of_2_inverse_fast"}
     /\ arg.x # 0
     /\ arg.pow <= arg.width
     /\ arg.x < Pow2(arg.pow)) =>
        /\ pc = "done"
        /\ arg.x % 2 = 0 => res = None
        /\ arg.x % 2 = 1 =>
               /\ Len(res) = 2
               /\ res[1] = "Some"
               /\ res[2] \in 0..(Pow2(arg.pow) - 1)
               /\ ProductModPow2(arg.x, res[2], arg.pow) = 1 % Pow2(arg.pow)

\* An inverse modulo 2^11, the last step from 2^8 made at 11 and not at 16.
C16_Witness ==
    /\ pc = "done"
    /\ op = "mod_power_of_2_inverse"
    /\ arg.width = 16
    /\ arg.pow = 11
    /\ arg.x % 2 = 1
    /\ arg.x >= 3
    /\ res[1] = "Some"
    /\ res[2] >= Pow2(8)
    /\ res[2] # arg.x

(***************************************************************************)
(* Calls of divisible_by_power_of_2: a Natural or an Integer whose lowest  *)
(* set bit lies anywhere in its lowest, second or third limb, with every   *)
(* pow up to MaxPow, beyond the bits of all of them.                       *)
(***************************************************************************)
MaxPow == 100

MaxZeroLimbs == 2

\* The limbs of the sampled values: zero limbs, a limb shifted left, a top limb or none.
PowerOf2Limbs ==
    {Zeros(z) \o <<Shl(x, k)>> \o top :
         z \in 0..MaxZeroLimbs, x \in OddLimbs, k \in {0, 1, 15, 16, 17, 31},
         top \in {<<>>, <<ONE>>}}

PowerOf2Naturals ==
    {Small(ZERO)} \cup {Small(Shl(x, k)) : x \in OddLimbs, k \in 0..(WIDTH - 1)}
        \cup {from_owned_limbs_asc(xs) : xs \in PowerOf2Limbs}

PowerOf2Integers ==
    {Integer(TRUE, n) : n \in PowerOf2Naturals}
        \cup {Integer(FALSE, n) : n \in PowerOf2Naturals \ {Small(ZERO)}}

InitDivisibleByPowerOf2 ==
    /\ pc = "ready"
    /\ op = "none"
    /\ \E pow \in 0..MaxPow :
           \/ \E n \in PowerOf2Naturals : arg = [natural |-> n, abs |-> n, pow |-> pow]
           \/ \E n \in PowerOf2Integers : arg = [integer |-> n, abs |-> n.abs, pow |-> pow]
    /\ res = NoRes

NaturalDivisibleByPowerOf2 ==
    /\ pc = "ready"
    /\ "natural" \in DOMAIN arg
    /\ Return("Natural::divisible_by_power_of_2",
              divisible_by_power_of_2(arg.natural, arg.pow))

IntegerDivisibleByPowerOf2 ==
    /\ pc = "ready"
    /\ "integer" \in DOMAIN arg
    /\ Return("Integer::divisible_by_power_of_2",
              integer_divisible_by_power_of_2(arg.integer, arg.pow))

NextDivisibleByPowerOf2 ==
    \/ NaturalDivisibleByPowerOf2
    \/ IntegerDivisibleByPowerOf2

SpecDivisibleByPowerOf2 == InitDivisibleByPowerOf2 /\ [][NextDivisibleByPowerOf2]_vars

MaxEdgeDistance == 3

U8 == PrimitiveInt(FALSE, 8)

I8 == PrimitiveInt(TRUE, 8)

U16 == PrimitiveInt(FALSE, 16)

I16 == PrimitiveInt(TRUE, 16)

\* <<$a, $b>> of lossy_conversion!($a, $b), as proper_subset_conversion! and
\* no_containment_conversion! apply it.
LossyConversions ==
    {<<U16, U8>>, <<I16, U8>>, <<I16, I8>>, <<U8, I8>>, <<I8, U8>>, <<U16, I8>>,
     <<I8, U16>>, <<U16, I16>>, <<I16, U16>>}

Edges == {0, Pow2(7), -Pow2(7), Pow2(8), Pow2(15), -Pow2(15), Pow2(16)}

ValuesOf(a) ==
    {e + d : e \in Edges, d \in (-MaxEdgeDistance)..MaxEdgeDistance}
        \cap (MinOf(a)..MaxOf(a))

InitLossyConversion ==
    /\ pc = "ready"
    /\ op = "none"
    /\ \E c \in LossyConversions : \E value \in ValuesOf(c[1]) :
           arg = [value |-> value, a |-> c[1], b |-> c[2]]
    /\ res = NoRes

CheckedFrom ==
    /\ pc = "ready"
    /\ Return("checked_from", checked_from(arg.value, arg.a, arg.b))

ConvertibleFrom ==
    /\ pc = "ready"
    /\ Return("convertible_from", convertible_from(arg.value, arg.a, arg.b))

NextLossyConversion ==
    \/ CheckedFrom
    \/ ConvertibleFrom

SpecLossyConversion == InitLossyConversion /\ [][NextLossyConversion]_vars

(***************************************************************************)
(* C18, as stated: a lossy conversion into a signed type of width W takes  *)
(* n to Some(n) if -2^(W-1) <= n < 2^(W-1) - 1 and to None otherwise, and  *)
(* convertible_from(n) is true for the same n; into an unsigned type, n    *)
(* goes to Some(n) if 0 <= n < 2^W and to None otherwise.                  *)
(***************************************************************************)
StatedRange(b) ==
    IF b.signed THEN (-Pow2(b.width - 1))..(Pow2(b.width - 1) - 2)
    ELSE 0..(Pow2(b.width) - 1)

RepresentableRange(b) ==
    IF b.signed THEN (-Pow2(b.width - 1))..(Pow2(b.width - 1) - 1)
    ELSE 0..(Pow2(b.width) - 1)

MaxDividend == 12

MaxDivisor == 5

\* The Integer of a value below 2^31 in absolute value.
IntegerOf(v) == Integer(v >= 0, NaturalOf(IF v >= 0 THEN v ELSE -v))

IntegerValue(n) == IF n.sign THEN NaturalValue(n.abs) ELSE -NaturalValue(n.abs)

InitDivRound ==
    /\ pc = "ready"
    /\ op = "none"
    /\ \E x \in (-MaxDividend)..MaxDividend : \E y \in (-MaxDivisor)..MaxDivisor :
           \E rm \in RoundingModes : arg = [x |-> IntegerOf(x), y |-> IntegerOf(y), rm |-> rm]
    /\ res = NoRes

DivRoundRefRef ==
    /\ pc = "ready"
    /\ IF NaturalDivRoundPanics(arg.x.abs, arg.y.abs, arg.rm)
           THEN Panics("div_round_ref_ref")
           ELSE Return("div_round_ref_ref", integer_div_round(arg.x, arg.y, arg.rm))

DivRoundValVal ==
    /\ pc = "ready"
    /\ IF NaturalDivRoundPanics(arg.x.abs, arg.y.abs, arg.rm)
           THEN Panics("div_round_val_val")
           ELSE Return("div_round_val_val", integer_div_round_val_val(arg.x, arg.y, arg.rm))

DivRoundAssign ==
    /\ pc = "ready"
    /\ IF NaturalDivRoundPanics(arg.x.abs, arg.y.abs, arg.rm)
           THEN Panics("div_round_assign")
           ELSE Return("div_round_assign", integer_div_round_assign(arg.x, arg.y, arg.rm))

NextDivRound ==
    \/ DivRoundRefRef
    \/ DivRoundValVal
    \/ DivRoundAssign

SpecDivRound == InitDivRound /\ [][NextDivRound]_vars

(***************************************************************************)
(* C19: for Integers x and y # 0 and every rounding mode, div_round and    *)
(* div_round_assign give the quotient q that rounds the exact x / y as the *)
(* mode prescribes (Down toward zero, Up away from zero, Floor, Ceiling,   *)
(* Nearest with ties to the even quotient; Exact panics unless y divides   *)
(* x) and the Ordering of q relative to x / y; for operands of opposite    *)
(* sign this is the rounding of |x| / |y| with the negated mode, the       *)
(* Ordering reversed.                                                      *)
(***************************************************************************)
AbsValue(v) == IF v >= 0 THEN v ELSE -v

\* The Ordering of q relative to x / y.
OrderingToExact(q, x, y) ==
    IF q * y = x THEN "Equal"
    ELSE IF (q * y < x) = (y > 0) THEN "Less"
    ELSE "Greater"

\* Is q the exact x / y rounded as rm prescribes?
RoundedAs(q, x, y, rm) ==
    /\ AbsValue(q * y - x) < AbsValue(y)
    /\ rm = "Down" => AbsValue(q * y) <= AbsValue(x)
    /\ rm = "Up" => AbsValue(q * y) >= AbsValue(x)
    /\ rm = "Floor" => OrderingToExact(q, x, y) # "Greater"
    /\ rm = "Ceiling" => OrderingToExact(q, x, y) # "Less"
    /\ rm = "Nearest" =>
           /\ 2 * AbsValue(q * y - x) <= AbsValue(y)
           /\ 2 * AbsValue(q * y - x) = AbsValue(y) => q % 2 = 0
    /\ rm = "Exact" => q * y = x

C19_DivRoundRoundsAsPrescribed ==
    (pc # "ready" /\ op \in {"div_round_ref_ref", "div_round_val_val", "div_round_assign"}) =>
        IF \/ IntegerValue(arg.y) = 0
           \/ arg.rm = "Exact" /\ IntegerValue(arg.x) % AbsValue(IntegerValue(arg.y)) # 0
            THEN pc = "panic"
            ELSE /\ pc = "done"
                 /\ res[1] = IntegerOf(IntegerValue(res[1]))
                 /\ RoundedAs(IntegerValue(res[1]), IntegerValue(arg.x), IntegerValue(arg.y),
                              arg.rm)
                 /\ res[2] = OrderingToExact(IntegerValue(res[1]), IntegerValue(arg.x),
                                             IntegerValue(arg.y))
                 /\ arg.x.sign # arg.y.sign =>
                        /\ res[1].abs
                               = natural_div_round(arg.x.abs, arg.y.abs,
                                                   NegRoundingMode(arg.rm))[1]
                        /\ res[2]
                               = reverse(natural_div_round(arg.x.abs, arg.y.abs,
                                                           NegRoundingMode(arg.rm))[2])

\* -7 / 2 under Floor is -4, below the exact quotient: |x| / |y| rounded up.
C19_Witness ==
    /\ pc = "done"
    /\ op = "div_round_ref_ref"
    /\ IntegerValue(arg.x) = -7
    /\ IntegerValue(arg.y) = 2
    /\ arg.rm = "Floor"
    /\ res = <<IntegerOf(-4), "Less">>

(***************************************************************************)
(* An iterator made by random_bools and the calls of next on it.  arg.self *)
(* is the iterator; arg.word is the word of the last draw, arg.drawn the   *)
(* number of draws and arg.emitted the number of calls of next so far;     *)
(* res is what the last call returned.  The generator yields any of        *)
(* LimbSamples at a draw, and MaxDraws draws are followed.                  *)
(***************************************************************************)
MaxDraws == 3

InitRandomBools ==
    /\ pc = "ready"
    /\ op = "random_bools"
    /\ arg = [self |-> random_bools, word |-> ZERO, drawn |-> 0, emitted |-> 0]
    /\ res = NoRes

RandomBoolsNextDraws ==
    /\ pc = "ready"
    /\ arg.self.bits_left = 0
    /\ arg.drawn < MaxDraws
    /\ \E word \in LimbSamples :
           /\ arg' = [self |-> random_bools_next(arg.self, word)[1], word |-> word,
                      drawn |-> arg.drawn + 1, emitted |-> arg.emitted + 1]
           /\ res' = random_bools_next(arg.self, word)[2]
    /\ op' = "next"
    /\ UNCHANGED pc

RandomBoolsNextShifts ==
    /\ pc = "ready"
    /\ arg.self.bits_left # 0
    /\ arg' = [arg EXCEPT !.self = random_bools_next(arg.self, ZERO)[1],
                          !.emitted = arg.emitted + 1]
    /\ res' = random_bools_next(arg.self, ZERO)[2]
    /\ op' = "next"
    /\ UNCHANGED pc

NextRandomBools ==
    \/ RandomBoolsNextDraws
    \/ RandomBoolsNextShifts

SpecRandomBools == InitRandomBools /\ [][NextRandomBools]_vars

(***************************************************************************)
(* C20: RandomBools uses every bit of every word it draws: a word is drawn *)
(* at the first call of next and then after every 32nd output since the    *)
(* draw before, and nowhere else; the j-th output after a draw, j = 0..31, *)
(* is bit j of the word drawn; next never returns None.                    *)
(***************************************************************************)
LimbBit(x, j) == (x[j \div HALF_WIDTH + 1] \div Pow2(j % HALF_WIDTH)) % 2 = 1

C20_EveryBitOnce ==
    (op = "next") =>
        /\ arg.drawn >= 1
        /\ arg.self.bits_left \in 0..31
        /\ arg.emitted = 32 * (arg.drawn - 1) + (31 - arg.self.bits_left) + 1
        /\ res = Some(LimbBit(arg.word, 31 - arg.self.bits_left))

\* The 32nd output after the second draw is the top bit of the word drawn then.
C20_Witness ==
    /\ op = "next"
    /\ arg.drawn = 2
    /\ arg.emitted = 64
    /\ arg.self.bits_left = 0
    /\ arg.word = Limb(32768, 0)
    /\ res = Some(TRUE)

(***************************************************************************)
(* Calls of _limbs_modular_div_schoolbook alone, divisors of one limb      *)
(* among them.                                                             *)
(***************************************************************************)
InitModularDivSchoolbook ==
    /\ pc = "ready"
    /\ op = "none"
    /\ \E d_len \in 1..MaxDivisorLen : \E n_len \in d_len..MaxNumeratorLen :
           \E ds \in ModularDivisors(d_len) : \E ns \in ModularNumerators(n_len) :
               arg = [ns |-> ns, ds |-> ds, qs |-> Pattern(n_len + 1, 3, 2),
                      d_inv |-> WrappingNeg(limbs_modular_invert_limb(ds[1]))]
    /\ res = NoRes

SpecModularDivSchoolbook == InitModularDivSchoolbook /\ [][ModularDivSchoolbook]_vars

(***************************************************************************)
(* C21: _limbs_modular_div_schoolbook, called with d_inv = -(1 / D) modulo *)
(* 2^32 for a D with an odd lowest limb and 1 <= d_len <= n_len, leaves    *)
(* the lowest remaining limb of N zero after the add-multiply of every     *)
(* step, and the complemented limbs !q it stores, with the final add of 1, *)
(* are the quotient N / D modulo 2^(32 * n_len) and not its negation.      *)
(***************************************************************************)
C21_SchoolbookCancelsAndNegates ==
    (pc # "ready" /\ op = "_limbs_modular_div_schoolbook" /\ Odd(arg.ds[1])) =>
        /\ pc = "done"
        /\ \A i \in 1..(Len(arg.ns) - 1) :
               SchoolbookLowLimbsFrom(arg.ns, arg.ds, arg.d_inv, 0)[i] = ZERO
        /\ Len(res.qs) = Len(arg.qs)
        /\ limbs_mul_low_same_length(
               Slice(res.qs, 0, Len(arg.ns)),
               arg.ds \o Zeros(Len(arg.ns) - Len(arg.ds))) = arg.ns

\* A divisor of one limb that is not 1 under a numerator of several limbs.
C21_Witness ==
    /\ pc = "done"
    /\ op = "_limbs_modular_div_schoolbook"
    /\ Len(arg.ds) = 1
    /\ arg.ds[1] # ONE
    /\ Len(arg.ns) >= 3
    /\ arg.ns # Zeros(Len(arg.ns))
    /\ Slice(res.qs, 0, Len(arg.ns)) # arg.ns

(***************************************************************************)
(* C22: whenever an entry point of exact division reaches the multi-limb   *)
(* kernel (d >= 2 limbs of D above its zero limbs, q_len = n - d + 1), the *)
(* divisor slice it passes has an odd lowest limb and min(d, q_len) >= 1   *)
(* limbs, the numerator slice has q_len limbs, and both are the low limbs  *)
(* of D >> s and N >> s in full, s being the trailing zero bits of D's     *)
(* lowest nonzero limb; the shifted ranges ds[..min(d, q_len + 1)] and     *)
(* ns[..q_len + 1] lie within the operands, and the quotient written is Q. *)
(***************************************************************************)
StrippedNs == From(arg.ns, slice_leading_zeros(arg.ds))

StrippedDs == From(arg.ds, slice_leading_zeros(arg.ds))

\* The low len limbs of xs >> s, shifted in full.
LowLimbsOfShifted(xs, s, len) ==
    Slice(IF s # 0 THEN limbs_shr_to_out(xs, s)[1] ELSE xs, 0, len)

KernelOperandsAreShifted(k, ns, ds) ==
    /\ Len(k.ds) = Min(Len(ds), QLen(ns, ds))
    /\ Len(k.ds) >= 1
    /\ Odd(k.ds[1])
    /\ Len(k.ns) = QLen(ns, ds)
    /\ k.ds = LowLimbsOfShifted(ds, TrailingZeros(ds[1]), Min(Len(ds), QLen(ns, ds)))
    /\ k.ns = LowLimbsOfShifted(ns, TrailingZeros(ds[1]), QLen(ns, ds))

C22_KernelOperandsAreShifted ==
    (pc = "done" /\ op \in DivExactToOutOps \cup {"limbs_div_exact"}
        /\ Len(StrippedDs) >= 2) =>
        /\ DsLimitLen(StrippedNs, StrippedDs) = Min(Len(StrippedDs), QLen(StrippedNs, StrippedDs) + 1)
        /\ DsLimitLen(StrippedNs, StrippedDs) <= Len(StrippedDs)
        /\ QLen(StrippedNs, StrippedDs) + 1 <= Len(StrippedNs)
        /\ KernelOperandsAreShifted(DivExactKernelOperands(StrippedNs, StrippedDs),
                                    StrippedNs, StrippedDs)
        /\ KernelOperandsAreShifted(DivExactRefRefKernelOperands(StrippedNs, StrippedDs),
                                    StrippedNs, StrippedDs)
        /\ res.qs = Resized(arg.quotient, Len(arg.ns) - Len(arg.ds) + 1)

\* d > q_len, a shift, and a bit of ds[q_len] that moves into the kernel's top limb.
C22_Witness ==
    /\ pc = "done"
    /\ op = "limbs_div_exact_to_out"
    /\ Len(StrippedDs) > QLen(StrippedNs, StrippedDs)
    /\ QLen(StrippedNs, StrippedDs) >= 2
    /\ TrailingZeros(StrippedDs[1]) # 0
    /\ Shl(StrippedDs[QLen(StrippedNs, StrippedDs) + 1],
           WIDTH - TrailingZeros(StrippedDs[1])) # ZERO
    /\ Odd(DivExactKernelOperands(StrippedNs, StrippedDs).ds[1])
    /\ res.qs = Resized(arg.quotient, Len(arg.ns) - Len(arg.ds) + 1)

(***************************************************************************)
(* The Barrett routines by their lengths alone: ns.len() and ds.len() up   *)
(* to MaxBarrettLen, the lengths their callers assert against among them.  *)
(* res is the sequence of blocks of qs a call writes.                      *)
(***************************************************************************)
MaxBarrettLen == 40

InitBarrettBlocks ==
    /\ pc = "ready"
    /\ op = "none"
    /\ \E n_len \in 1..MaxBarrettLen : \E d_len \in 1..MaxBarrettLen :
           arg = [n_len |-> n_len, d_len |-> d_len]
    /\ res = NoRes

\* _limbs_modular_div_barrett
ModularDivBarrettBlocks ==
    /\ pc = "ready"
    /\ IF ~(arg.d_len >= 2 /\ arg.n_len >= arg.d_len)
           THEN Panics("_limbs_modular_div_barrett")
       ELSE IF arg.n_len > arg.d_len
           THEN Return("_limbs_modular_div_barrett_greater",
                       BarrettGreaterBlocks(arg.n_len, arg.d_len))
       ELSE Return("_limbs_modular_div_barrett_same_length",
                   BarrettSameLengthBlocks(arg.n_len))

\* _limbs_modular_div_mod_barrett
ModularDivModBarrettBlocks ==
    /\ pc = "ready"
    /\ IF ~(arg.d_len >= 2 /\ arg.n_len >= arg.d_len + 2)
           THEN Panics("_limbs_modular_div_mod_barrett")
       ELSE IF arg.n_len > 2 * arg.d_len
           THEN Return("_limbs_modular_div_mod_barrett_unbalanced",
                       ModBarrettUnbalancedBlocks(arg.n_len, arg.d_len))
       ELSE Return("_limbs_modular_div_mod_barrett_balanced",
                   ModBarrettBalancedBlocks(arg.n_len, arg.d_len))

NextBarrettBlocks == ModularDivBarrettBlocks \/ ModularDivModBarrettBlocks

SpecBarrettBlocks == InitBarrettBlocks /\ [][NextBarrettBlocks]_vars

(***************************************************************************)
(* C23: in Barrett division with quotient length q > d, i_len =            *)
(* ceil(q / ceil(q / d)) lies in 1..d, and qs is written in exactly        *)
(* ceil(q / i_len) = ceil(q / d) blocks of 1..i_len limbs each, one after  *)
(* the other from qs[0], q limbs in all; with operands of the same length  *)
(* n, i_len = ceil(n / 2) and the blocks are i_len and n - i_len limbs.    *)
(***************************************************************************)
Ceiling(a, b) == (a + b - 1) \div b

\* blocks tile qs[..q_len] in order, each of 1..i_len limbs.
BlocksTile(blocks, q_len, i_len) ==
    /\ Len(blocks) >= 1
    /\ blocks[1][1] = 0
    /\ \A k \in 1..Len(blocks) : blocks[k][2] >= 1 /\ blocks[k][2] <= i_len
    /\ \A k \in 1..Len(blocks) - 1 : blocks[k + 1][1] = blocks[k][1] + blocks[k][2]
    /\ blocks[Len(blocks)][1] + blocks[Len(blocks)][2] = q_len

BarrettBlocksPartition(blocks, q_len, d_len) ==
    /\ BarrettGreaterILen(q_len, d_len) = Ceiling(q_len, Ceiling(q_len, d_len))
    /\ BarrettGreaterILen(q_len, d_len) >= 1
    /\ BarrettGreaterILen(q_len, d_len) <= d_len
    /\ BlocksTile(blocks, q_len, BarrettGreaterILen(q_len, d_len))
    /\ Len(blocks) = Ceiling(q_len, BarrettGreaterILen(q_len, d_len))
    /\ Len(blocks) = Ceiling(q_len, d_len)

C23_BarrettBlocksPartitionQuotient ==
    /\ (pc = "done" /\ op = "_limbs_modular_div_barrett_greater") =>
           BarrettBlocksPartition(res, arg.n_len, arg.d_len)
    /\ (pc = "done" /\ op = "_limbs_modular_div_mod_barrett_unbalanced") =>
           BarrettBlocksPartition(res, arg.n_len - arg.d_len, arg.d_len)
    /\ (pc = "done" /\ op = "_limbs_modular_div_barrett_same_length") =>
           /\ res = <<<<0, Ceiling(arg.n_len, 2)>>,
                      <<Ceiling(arg.n_len, 2), arg.n_len - Ceiling(arg.n_len, 2)>>>>
           /\ BlocksTile(res, arg.n_len, Ceiling(arg.n_len, 2))

\* Three blocks of at most 4 limbs for q = 11, d = 5: 4, 4 and 3 limbs.
C23_Witness ==
    /\ pc = "done"
    /\ op = "_limbs_modular_div_barrett_greater"
    /\ arg.n_len = 11 /\ arg.d_len = 5
    /\ res = <<<<0, 4>>, <<4, 4>>, <<8, 3>>>>

(***************************************************************************)
(* limbs_modular_invert by the length of ds alone, up to MaxScheduleLen    *)
(* limbs: the precisions of its base value and of its iterations.          *)
(***************************************************************************)
MaxScheduleLen == 200

InitModularInvertSchedule ==
    /\ pc = "ready"
    /\ op = "none"
    /\ \E d_len \in 1..MaxScheduleLen : arg = [d_len |-> d_len]
    /\ res = NoRes

ModularInvertScheduleCall ==
    /\ pc = "ready"
    /\ Return("limbs_modular_invert", ModularInvertSchedule(arg.d_len))

SpecModularInvertSchedule == InitModularInvertSchedule /\ [][ModularInvertScheduleCall]_vars

(***************************************************************************)
(* C24: limbs_modular_invert computes its base value once, at the first    *)
(* size below BINV_NEWTON_THRESHOLD of n, ceil(n / 2), ceil(n / 4), ...;   *)
(* then it takes one Newton step per size above it, in increasing order.   *)
(* At each step the precision in hand is exactly ceil(size / 2), so that   *)
(* size - previous_size <= previous_size, and the last step ends at n.     *)
(***************************************************************************)
\* ceil(n / 2^j)
HalvedTimes(n, j) == (n + Pow2(j) - 1) \div Pow2(j)

C24_InvertScheduleDoublesFromOneBase ==
    (pc = "done" /\ op = "limbs_modular_invert" /\ "d_len" \in DOMAIN arg) =>
        /\ Len(res.bases) = 1
        /\ res.bases[1] = HalvedTimes(arg.d_len, Len(res.steps))
        /\ res.bases[1] >= 1
        /\ res.bases[1] < BINV_NEWTON_THRESHOLD
        /\ \A j \in 0..Len(res.steps) - 1 :
               HalvedTimes(arg.d_len, j) >= BINV_NEWTON_THRESHOLD
        /\ \A k \in 1..Len(res.steps) :
               /\ res.steps[k][2] = HalvedTimes(arg.d_len, Len(res.steps) - k)
               /\ res.steps[k][1] = Ceiling(res.steps[k][2], 2)
               /\ res.steps[k][1] < res.steps[k][2]
               /\ res.steps[k][2] - res.steps[k][1] <= res.steps[k][1]
               /\ res.steps[k][1] = IF k = 1 THEN res.bases[1] ELSE res.steps[k - 1][2]
        /\ (IF Len(res.steps) = 0 THEN res.bases[1]
            ELSE res.steps[Len(res.steps)][2]) = arg.d_len

\* 45, 23, 12, 6 are collected, the base value has 3 limbs.
C24_Witness ==
    /\ pc = "done"
    /\ op = "limbs_modular_invert"
    /\ "d_len" \in DOMAIN arg
    /\ arg.d_len = 45
    /\ res.bases = <<3>>
    /\ res.steps = <<<<3, 6>>, <<6, 12>>, <<12, 23>>, <<23, 45>>>>

(***************************************************************************)
(* The divide-and-conquer helpers by the length of ds alone, from the      *)
(* smallest their callers pass (DC_BDIV_QR_THRESHOLD) to MaxSplitLen.      *)
(* res is the sequence of calls made by the helper itself.                 *)
(***************************************************************************)
MaxSplitLen == 64

InitDivideAndConquerSplit ==
    /\ pc = "ready"
    /\ op = "none"
    /\ \E n \in DC_BDIV_QR_THRESHOLD..MaxSplitLen : arg = [n |-> n]
    /\ res = NoRes

ModDivModDCHelperSplit ==
    /\ pc = "ready"
    /\ Return("_limbs_modular_div_mod_divide_and_conquer_helper",
              ModDivModDCHelperCalls(arg.n))

ModDivDCHelperSplit ==
    /\ pc = "ready"
    /\ Return("_limbs_modular_div_divide_and_conquer_helper",
              ModDivDCHelperCalls(<<>>, arg.n, arg.n))

NextDivideAndConquerSplit == ModDivModDCHelperSplit \/ ModDivDCHelperSplit

SpecDivideAndConquerSplit == InitDivideAndConquerSplit /\ [][NextDivideAndConquerSplit]_vars

(***************************************************************************)
(* C25 as stated: the divide-and-conquer helpers split a divisor of d      *)
(* limbs into a low part of ceil(d / 2) limbs, solved first, and a high    *)
(* part of floor(d / 2) limbs, on which they go on; below the threshold    *)
(* they call schoolbook division.                                          *)
(***************************************************************************)
\* The first call solves the low first_len limbs of a divisor of d limbs, the rest
\* is rest_len limbs long.
SplitsInto(calls, d, first_len, rest_len) ==
    /\ Len(calls) >= 2
    /\ calls[1].at = 0
    /\ calls[1].len = first_len
    /\ calls[2].at = first_len
    /\ first_len + rest_len = d
    /\ IF op = "_limbs_modular_div_mod_divide_and_conquer_helper"
           THEN calls[2].len = rest_len
           ELSE calls[2].len = (IF rest_len >= DC_BDIV_Q_THRESHOLD
                                    THEN FloorHalf(rest_len) ELSE rest_len)

FallsBackToSchoolbook(calls) ==
    IF op = "_limbs_modular_div_mod_divide_and_conquer_helper"
        THEN \A k \in 1..Len(calls) :
                 (calls[k].routine = "_limbs_modular_div_mod_schoolbook")
                     <=> calls[k].len < DC_BDIV_QR_THRESHOLD
        ELSE /\ calls[Len(calls)].routine = "_limbs_modular_div_schoolbook"
             /\ calls[Len(calls)].len < DC_BDIV_Q_THRESHOLD
             /\ calls[Len(calls)].at + calls[Len(calls)].len = arg.n
             /\ \A k \in 1..Len(calls) - 1 :
                    calls[k].routine = "_limbs_modular_div_mod_divide_and_conquer_helper"

DivideAndConquerSplits ==
    /\ pc = "done"
    /\ op \in {"_limbs_modular_div_mod_divide_and_conquer_helper",
               "_limbs_modular_div_divide_and_conquer_helper"}
    /\ "n" \in DOMAIN arg
    /\ (op = "_limbs_modular_div_divide_and_conquer_helper"
            => arg.n >= DC_BDIV_Q_THRESHOLD)

C25_LowPartIsCeilingHalf ==
    DivideAndConquerSplits =>
        /\ SplitsInto(res, arg.n, Ceiling(arg.n, 2), arg.n \div 2)
        /\ FallsBackToSchoolbook(res)

(***************************************************************************)
(* C25 as the code has it: the low part, solved first, has floor(d / 2)    *)
(* limbs (lo = n >> 1) and the high part ceil(d / 2) limbs (hi = n - lo);  *)
(* below the threshold they call schoolbook division.                      *)
(***************************************************************************)
C25_LowPartIsFloorHalf ==
    DivideAndConquerSplits =>
        /\ SplitsInto(res, arg.n, arg.n \div 2, Ceiling(arg.n, 2))
        /\ FallsBackToSchoolbook(res)

\* 7 limbs: 3 are solved first, then 4.
C25_Witness ==
    /\ DivideAndConquerSplits
    /\ op = "_limbs_modular_div_mod_divide_and_conquer_helper"
    /\ arg.n = 7
    /\ res[1].len = 3 /\ res[2].len = 4 /\ res[2].at = 3

(***************************************************************************)
(* The interpolations on exact evaluations.  For seven points: operands of *)
(* four chunks, the low three of n <= MaxToom4ChunkLen limbs and the top   *)
(* ones of s and t limbs, their evaluations at 1, -1, 2, -2 and 1/2 (times *)
(* 8) in n + 1 limbs each, and the products of the evaluations as the      *)
(* seven values; the flags say whether f(-2) and f(-1) are negative.       *)
(* arg.coefficients are the coefficients 1 to 5 of the product polynomial, *)
(* summed from the products of the chunks.                                 *)
(***************************************************************************)
MaxToom4ChunkLen == 2

\* The chunks <<xs_0, xs_1, xs_2, xs_3>> of xs.
Chunks4(xs, n) ==
    <<Slice(xs, 0, n), Slice(xs, n, 2 * n), Slice(xs, 2 * n, 3 * n), From(xs, 3 * n)>>

\* x0 + 2^e1 * x1 + 2^e2 * x2 (e1, e2 > 0) in n + 1 limbs.
Weighted(x0, x1, e1, x2, e2, n) ==
    limbs_add_same_length_to_out(
        limbs_add_same_length_to_out(Pad(x0, n + 1),
                                     limbs_shl_to_out(Pad(x1, n + 1), e1)[1])[1],
        limbs_shl_to_out(Pad(x2, n + 1), e2)[1])[1]

Sum2(x, y, n) == limbs_add_same_length_to_out(Pad(x, n + 1), Pad(y, n + 1))[1]

\* <<|x - y|, whether x - y < 0>>
SignedDifference(x, y) ==
    IF limbs_cmp_same_length(x, y) = "Less"
        THEN <<limbs_sub_same_length_to_out(y, x)[1], TRUE>>
        ELSE <<limbs_sub_same_length_to_out(x, y)[1], FALSE>>

Eval4At1(a, n) == Sum2(Sum2(a[1], a[3], n), Sum2(a[2], a[4], n), n)

Eval4AtNeg1(a, n) == SignedDifference(Sum2(a[1], a[3], n), Sum2(a[2], a[4], n))

\* a0 + 4 * a2 and 2 * a1 + 8 * a3
Eval4At2Even(a, n) == Weighted(a[1], a[3], 2, <<>>, 1, n)

Eval4At2Odd(a, n) == Weighted(<<>>, a[2], 1, a[4], 3, n)

Eval4At2(a, n) == limbs_add_same_length_to_out(Eval4At2Even(a, n), Eval4At2Odd(a, n))[1]

Eval4AtNeg2(a, n) == SignedDifference(Eval4At2Even(a, n), Eval4At2Odd(a, n))

\* 8 * a(1/2) = 8 * a0 + 4 * a1 + 2 * a2 + a3
Eval4AtHalf(a, n) ==
    limbs_add_same_length_to_out(Weighted(a[4], a[3], 1, a[2], 2, n),
                                 limbs_shl_to_out(Pad(a[1], n + 1), 3)[1])[1]

\* f is negative where exactly one factor is, and neither is zero.
ProductIsNegative(x, y) ==
    x[2] # y[2] /\ ~slice_test_zero(x[1]) /\ ~slice_test_zero(y[1])

\* a[i] * b[j] in 2 * n + 1 limbs.
ChunkProduct(a, b, i, j, n) == Pad(limbs_mul_to_out(a[i + 1], b[j + 1]), 2 * n + 1)

RECURSIVE CoefficientFrom(_, _, _, _, _)
\* The sum of a[i] * b[k - i] from i on.
CoefficientFrom(a, b, k, i, n) ==
    IF i > Min(3, k) THEN Zeros(2 * n + 1)
    ELSE limbs_add_same_length_to_out(ChunkProduct(a, b, i, k - i, n),
                                      CoefficientFrom(a, b, k, i + 1, n))[1]

Coefficient(a, b, k, n) == CoefficientFrom(a, b, k, Max(0, k - 3), n)

\* The call's arguments for the polynomials with chunks a and b; out holds w0, w2
\* and w6 where the call expects them and limbs of no meaning elsewhere.
Interpolate7Args(a, b, n) ==
    [out |-> Put(Put(Pattern(6 * n + Len(a[4]) + Len(b[4]), 3, 2), 0,
                     limbs_mul_to_out(a[1], b[1])
                         \o EvalProduct(Eval4At1(a, n), Eval4At1(b, n), n)),
                 6 * n, limbs_mul_to_out(a[4], b[4])),
     n |-> n,
     n_high |-> Len(a[4]) + Len(b[4]),
     w1_neg |-> ProductIsNegative(Eval4AtNeg2(a, n), Eval4AtNeg2(b, n)),
     w1 |-> EvalProduct(Eval4AtNeg2(a, n)[1], Eval4AtNeg2(b, n)[1], n),
     w3_neg |-> ProductIsNegative(Eval4AtNeg1(a, n), Eval4AtNeg1(b, n)),
     w3 |-> EvalProduct(Eval4AtNeg1(a, n)[1], Eval4AtNeg1(b, n)[1], n),
     w4 |-> EvalProduct(Eval4At2(a, n), Eval4At2(b, n), n),
     w5 |-> EvalProduct(Eval4AtHalf(a, n), Eval4AtHalf(b, n), n),
     coefficients |-> [k \in 1..5 |-> Coefficient(a, b, k, n)]]

InitInterpolate7 ==
    /\ pc = "ready"
    /\ op = "none"
    /\ \E n \in 1..MaxToom4ChunkLen : \E s \in 1..n : \E t \in 1..n :
           \E xs \in Patterns(3 * n + s) :
               \E ys \in IF s = t THEN SecondOperands(xs, 3 * n + t)
                         ELSE SecondOperands(Pattern(3 * n + t, 1, 0), 3 * n + t) :
                   arg = Interpolate7Args(Chunks4(xs, n), Chunks4(ys, n), n)
    /\ res = NoRes

Interpolate7Points ==
    /\ pc = "ready"
    /\ Return("_limbs_mul_toom_interpolate_7_points",
              Interpolate7PointsValues(arg.out, arg.n, arg.n_high, arg.w1_neg, arg.w1,
                                       arg.w3_neg, arg.w3, arg.w4, arg.w5))

InitInterpolate == InitInterpolate5 \/ InitInterpolate7

NextInterpolate ==
    \/ ("v_2" \in DOMAIN arg /\ Interpolate5Points)
    \/ ("w5" \in DOMAIN arg /\ Interpolate7Points)

SpecInterpolate == InitInterpolate /\ [][NextInterpolate]_vars

(***************************************************************************)
(* C26: whenever Toom interpolation halves a value, the bits shifted out   *)
(* are zero, the inputs being exact evaluations with the right sign flags: *)
(* in the 5-point routine both calls of limbs_slice_shr_in_place(.., 1)    *)
(* return 0 and the routine returns; in the 7-point routine w1, w3, w5 and *)
(* w1 again are even and w4 is divisible by 4 where the code asserts it,   *)
(* and the values it ends with are the coefficients of the product.        *)
(***************************************************************************)
DivisibleBy4(x) == Lo(x) % 4 = 0

C26_HalvingsAreExact ==
    /\ (pc = "done" /\ op = "_limbs_mul_toom_interpolate_5_points") =>
           /\ Interpolate5ShiftedOut(arg.c, arg.v_2, arg.v_neg_1, arg.k, arg.v_neg_1_neg)
                  = <<ZERO, ZERO>>
           /\ res = arg.product
    /\ (pc = "done" /\ op = "_limbs_mul_toom_interpolate_7_points") =>
           /\ Len(res.low) = 5
           /\ Even(res.low[1])
           /\ DivisibleBy4(res.low[2])
           /\ Even(res.low[3])
           /\ Even(res.low[4])
           /\ Even(res.low[5])
           /\ <<res.w1, res.w2, res.w3, res.w4, res.w5>> = arg.coefficients

\* Both f(-2) and f(-1) negative, and coefficients that are not zero.
C26_Witness ==
    /\ pc = "done"
    /\ op = "_limbs_mul_toom_interpolate_7_points"
    /\ arg.w1_neg /\ arg.w3_neg
    /\ arg.n = MaxToom4ChunkLen
    /\ \A k \in 1..5 : ~slice_test_zero(arg.coefficients[k])
    /\ res.low[2] # ZERO /\ DivisibleBy4(res.low[2])
    /\ res.w3 = arg.coefficients[3]

\* The 5-point routine on a negative f(-1).
C26_WitnessFivePoints ==
    /\ pc = "done"
    /\ op = "_limbs_mul_toom_interpolate_5_points"
    /\ arg.v_neg_1_neg
    /\ ~slice_test_zero(arg.v_neg_1)
    /\ Interpolate5ShiftedOut(arg.c, arg.v_2, arg.v_neg_1, arg.k, arg.v_neg_1_neg)
           = <<ZERO, ZERO>>

(***************************************************************************)
(* _limbs_square_to_out_toom_2 and _limbs_square_to_out_toom_3 called on   *)
(* their own, on every sampled xs of 2 to MaxCarryLen limbs that their     *)
(* size assertions accept, limbs of all ones among them.  res.out is out   *)
(* after the call, res.seen the limbs the carry assertions read.           *)
(***************************************************************************)
MaxCarryLen == 9

InitToomCarries ==
    /\ pc = "ready"
    /\ op = "none"
    /\ \E n \in 2..MaxCarryLen : \E xs \in Patterns(n) :
           arg = [xs |-> xs, out |-> Pattern(2 * n + 1, 3, 2),
                  product |-> limbs_mul_to_out(xs, xs)]
    /\ res = NoRes

\* |xs_0 - xs_1| in n limbs, xs_1 being the chunk above xs[..n].
Toom2AbsDifference(xs, n) ==
    SignedDifference(Slice(xs, 0, n), Pad(From(xs, n), n))[1]

Toom2Carried ==
    /\ pc = "ready"
    /\ IF ~Toom2SizeAsserts(Len(arg.xs)) THEN Panics("_limbs_square_to_out_toom_2")
       ELSE Return("_limbs_square_to_out_toom_2",
                   [out |-> _limbs_square_to_out_toom_2(
                                arg.out, arg.xs,
                                Zeros(_limbs_square_to_out_toom_2_scratch_len(Len(arg.xs))))[1],
                    seen |-> Toom2CarriesSeen(
                                 limbs_mul_to_out(Slice(arg.xs, 0, CeilingHalf(Len(arg.xs))),
                                                  Slice(arg.xs, 0, CeilingHalf(Len(arg.xs))))
                                     \o limbs_mul_to_out(From(arg.xs, CeilingHalf(Len(arg.xs))),
                                                         From(arg.xs, CeilingHalf(Len(arg.xs)))),
                                 limbs_mul_to_out(
                                     Toom2AbsDifference(arg.xs, CeilingHalf(Len(arg.xs))),
                                     Toom2AbsDifference(arg.xs, CeilingHalf(Len(arg.xs)))),
                                 CeilingHalf(Len(arg.xs)))])

Toom3Carried ==
    /\ pc = "ready"
    /\ IF ~Toom3SizeAsserts(Len(arg.xs)) THEN Panics("_limbs_square_to_out_toom_3")
       ELSE Return("_limbs_square_to_out_toom_3",
                   [out |-> _limbs_square_to_out_toom_3(
                                arg.out, arg.xs,
                                Zeros(_limbs_square_to_out_toom_3_scratch_len(Len(arg.xs))))[1],
                    seen |-> Toom3TopLimbsSeen(arg.xs, Toom3ChunkLen(Len(arg.xs)))])

NextToomCarries == Toom2Carried \/ Toom3Carried

SpecToomCarries == InitToomCarries /\ [][NextToomCarries]_vars

(***************************************************************************)
(* C27: for every input of valid length the carry assertions of Toom       *)
(* squaring hold: in Toom-3 the top limb of X(1) is at most 2 and that of  *)
(* |X(-1)| at most 1; in Toom-2 carry + 1 <= 3 and carry2 <= 2 at the      *)
(* recomposition; and the 5-point interpolation, called by Toom-3 with     *)
(* v_neg_1_neg = false, meets none of its assertions on borrows and        *)
(* carries: the calls return, with the square in out.                      *)
(***************************************************************************)
C27_ToomCarriesAreBounded ==
    /\ (pc # "ready" /\ op = "_limbs_square_to_out_toom_2"
            /\ Toom2SizeAsserts(Len(arg.xs))) =>
           /\ pc = "done"
           /\ LimbLe(WrappingAdd(res.seen[1], ONE), LimbOf(3))
           /\ LimbLe(res.seen[2], LimbOf(2))
           /\ Slice(res.out, 0, 2 * Len(arg.xs)) = arg.product
    /\ (pc # "ready" /\ op = "_limbs_square_to_out_toom_3"
            /\ Toom3SizeAsserts(Len(arg.xs))) =>
           /\ pc = "done"
           /\ LimbLe(res.seen[1], LimbOf(2))
           /\ LimbLe(res.seen[2], ONE)
           /\ Slice(res.out, 0, 2 * Len(arg.xs)) = arg.product

\* Toom-3 on limbs of all ones: X(1) has the top limb 2.
C27_Witness ==
    /\ pc = "done"
    /\ op = "_limbs_square_to_out_toom_3"
    /\ Len(arg.xs) = MaxCarryLen
    /\ res.seen[1] = LimbOf(2)
    /\ Slice(res.out, 0, 2 * Len(arg.xs)) = arg.product

\* Toom-2 with the borrow of v_neg_1 taken from a carry of 0: carry + 1 wraps to 0.
C27_WitnessToom2 ==
    /\ pc = "done"
    /\ op = "_limbs_square_to_out_toom_2"
    /\ res.seen[1] = LIMB_MAX
    /\ Slice(res.out, 0, 2 * Len(arg.xs)) = arg.product

(***************************************************************************)
(* The descent of the squaring routines and of the divide-and-conquer      *)
(* division helpers.  A frame is the length of the operand of the current  *)
(* call (arg.xs_len or arg.n at the start), the length of its caller's     *)
(* and the number of steps that led to it.  A squaring step is a call by   *)
(* any Toom-k routine whose size assertions accept the current length, on  *)
(* any of its operands, which covers every choice of the *_recursive       *)
(* dispatchers.  A division step is an iteration of the loop of            *)
(* _limbs_modular_div_divide_and_conquer_helper, its call of the other     *)
(* helper, or a call of that helper on itself.                             *)
(***************************************************************************)
MaxDescentLen == 66

InitDescent ==
    /\ pc = "ready"
    /\ op = "none"
    /\ \E len \in 1..MaxDescentLen :
           /\ arg \in {[xs_len |-> len], [n |-> len]}
           /\ res = [len |-> len, from |-> len, depth |-> 0]

Descend(name, len) ==
    /\ pc' = "called"
    /\ op' = name
    /\ res' = [len |-> len, from |-> res.len, depth |-> res.depth + 1]
    /\ UNCHANGED arg

Squaring == "xs_len" \in DOMAIN arg

Toom2Descends ==
    /\ Squaring
    /\ Toom2SizeAsserts(res.len)
    /\ \E i \in DOMAIN Toom2OperandLens(res.len) :
           Descend("_limbs_square_to_out_toom_2", Toom2OperandLens(res.len)[i])

Toom3Descends ==
    /\ Squaring
    /\ Toom3SizeAsserts(res.len)
    /\ \E i \in DOMAIN Toom3OperandLens(res.len) :
           Descend("_limbs_square_to_out_toom_3", Toom3OperandLens(res.len)[i])

Toom4Descends ==
    /\ Squaring
    /\ Toom4SizeAsserts(res.len)
    /\ \E i \in DOMAIN Toom4OperandLens(res.len) :
           Descend("_limbs_square_to_out_toom_4", Toom4OperandLens(res.len)[i])

Toom6Descends ==
    /\ Squaring
    /\ Toom6SizeAsserts(res.len)
    /\ \E i \in DOMAIN Toom6OperandLens(res.len) :
           Descend("_limbs_square_to_out_toom_6", Toom6OperandLens(res.len)[i])

Toom8Descends ==
    /\ Squaring
    /\ Toom8SizeAsserts(res.len)
    /\ \E i \in DOMAIN Toom8OperandLens(res.len) :
           Descend("_limbs_square_to_out_toom_8", Toom8OperandLens(res.len)[i])

InDCLoop ==
    /\ ~Squaring
    /\ op \in {"none", "_limbs_modular_div_divide_and_conquer_helper"}

\* "while n_rem >= DC_BDIV_Q_THRESHOLD { .. n_rem = hi; }"
DCLoopIterates ==
    /\ InDCLoop
    /\ res.len >= DC_BDIV_Q_THRESHOLD
    /\ Descend("_limbs_modular_div_divide_and_conquer_helper", DCLoopRemaining(res.len))

\* The call of _limbs_modular_div_mod_divide_and_conquer_helper with &ds[..lo] in
\* an iteration.
DCLoopCalls ==
    /\ InDCLoop
    /\ res.len >= DC_BDIV_Q_THRESHOLD
    /\ Descend("_limbs_modular_div_mod_divide_and_conquer_helper", FloorHalf(res.len))

\* The calls of _limbs_modular_div_mod_divide_and_conquer_helper on itself, with
\* ds[..lo] and ds[..hi], where these are not left to schoolbook.
DCModHelperCalls ==
    /\ ~Squaring
    /\ op \in {"none", "_limbs_modular_div_mod_divide_and_conquer_helper"}
    /\ \E call \in {ModDivModDCHelperCalls(res.len)[i] : i \in 1..2} :
           /\ call.routine = "_limbs_modular_div_mod_divide_and_conquer_helper"
           /\ Descend("_limbs_modular_div_mod_divide_and_conquer_helper", call.len)

NextDescent ==
    \/ Toom2Descends
    \/ Toom3Descends
    \/ Toom4Descends
    \/ Toom6Descends
    \/ Toom8Descends
    \/ DCLoopIterates
    \/ DCLoopCalls
    \/ DCModHelperCalls

SpecDescent == InitDescent /\ [][NextDescent]_vars

(***************************************************************************)
(* C29: every recursive squaring call of a Toom-k routine (k = 2, 3, 4, 6, *)
(* 8) on an input of valid length is on a nonempty operand strictly        *)
(* shorter than the input; an iteration of the divide-and-conquer division *)
(* loop leaves ceil(n_rem / 2), which is less than n_rem, and the calls of *)
(* the helpers are on nonempty shorter divisors; so the number of nested   *)
(* steps is bounded by the length of the input.                            *)
(***************************************************************************)
C29_DescentIsStrict ==
    pc = "called" =>
        /\ 0 < res.len
        /\ res.len < res.from
        /\ res.depth + res.len
               <= (IF "xs_len" \in DOMAIN arg THEN arg.xs_len ELSE arg.n)
        /\ (op = "_limbs_modular_div_divide_and_conquer_helper"
                => res.len = Ceiling(res.from, 2))

\* Toom-8 on 64 limbs calls Toom-3 on 9, which calls Toom-2 on 4, which squares 2.
C29_Witness ==
    /\ pc = "called"
    /\ "xs_len" \in DOMAIN arg
    /\ arg.xs_len = 64
    /\ op = "_limbs_square_to_out_toom_2"
    /\ res = [len |-> 2, from |-> 4, depth |-> 3]

\* The loop on 7 limbs leaves 4 and then 2.
C29_WitnessDivision ==
    /\ pc = "called"
    /\ "n" \in DOMAIN arg
    /\ arg.n = 7
    /\ op = "_limbs_modular_div_divide_and_conquer_helper"
    /\ res = [len |-> 2, from |-> 4, depth |-> 2]

(***************************************************************************)
(* Two Integers, res.x and res.y, and the operations on them one after the *)
(* other: each takes its operands from them and leaves its result in one   *)
(* of them.  They start as arg.x and arg.y, zero with sign = true, and an  *)
(* operation whose result is above MaxIntegerAbs in absolute value is not  *)
(* taken.  Only &x - &y can be given one object twice.                     *)
(***************************************************************************)
MaxIntegerAbs == 6

MaxSignedLimbAbs == 3

MaxShift == 3

Registers == {"x", "y"}

SignedLimbs == (-MaxSignedLimbAbs)..MaxSignedLimbAbs

\* The values the two Integers start with.
StartValues == {-5, -4, 0, 3}

InitIntegerOps ==
    /\ pc = "ready"
    /\ op = "none"
    /\ \E x \in StartValues : \E y \in StartValues :
           /\ arg = [x |-> IntegerOf(x), y |-> IntegerOf(y)]
           /\ res = arg


\* value left in dst by the operation name.
Leaves(name, dst, value) ==
    /\ NaturalValue(value.abs) <= MaxIntegerAbs
    /\ pc' = "done"
    /\ op' = name
    /\ res' = IF dst = "x" THEN [x |-> value, y |-> res.y] ELSE [x |-> res.x, y |-> value]
    /\ UNCHANGED arg

IntegerSub ==
    \E impl \in {"ref_ref", "assign", "ref_val"} : \E a \in Registers, b \in Registers :
        \E dst \in Registers :
            /\ impl = "ref_ref" \/ a # b
            /\ impl = "assign" => dst = a
            /\ Leaves("sub", dst, integer_sub(impl, res[a], res[b], a = b))

IntegerAddSignedLimb ==
    \E impl \in {"ref", "assign"} : \E a \in Registers, dst \in Registers :
        \E other \in SignedLimbs :
            /\ impl = "assign" => dst = a
            /\ Leaves("add_signed_limb", dst, integer_add_signed_limb(res[a], other))

\* "self must be exactly divisible by other": the calls that keep to it.
IntegerDivExact ==
    \E a \in Registers, b \in Registers : \E dst \in Registers :
        /\ res[b].abs # natural_zero
        /\ NaturalValue(res[a].abs) % NaturalValue(res[b].abs) = 0
        /\ Leaves("div_exact", dst, integer_div_exact(res[a], res[b]))

IntegerDivExactSignedLimb ==
    \E impl \in {"ref", "assign", "limb_by_integer"} : \E a \in Registers, dst \in Registers :
        \E other \in SignedLimbs :
            /\ impl = "assign" => dst = a
            /\ IF impl = "limb_by_integer"
                   THEN /\ res[a].abs # natural_zero
                        /\ NaturalValue(UnsignedAbs(other)) % NaturalValue(res[a].abs) = 0
                   ELSE /\ other # 0
                        /\ NaturalValue(res[a].abs) % NaturalValue(UnsignedAbs(other)) = 0
            /\ Leaves("div_exact_signed_limb", dst,
                      integer_div_exact_signed_limb(impl, res[a], other))

IntegerDivRound ==
    \E impl \in {"ref_ref", "assign"} : \E a \in Registers, b \in Registers :
        \E dst \in Registers : \E rm \in RoundingModes :
            /\ impl = "assign" => dst = a
            /\ ~NaturalDivRoundPanics(res[a].abs, res[b].abs, rm)
            /\ Leaves("div_round", dst,
                      IF impl = "ref_ref" THEN integer_div_round(res[a], res[b], rm)[1]
                      ELSE integer_div_round_assign(res[a], res[b], rm)[1])

IntegerShr ==
    \E impl \in {"ref", "assign"} : \E a \in Registers, dst \in Registers :
        \E bits \in 0..MaxShift :
            /\ impl = "assign" => dst = a
            /\ Leaves("shr", dst, integer_shr_unsigned(impl, res[a], bits))

NextIntegerOps ==
    \/ IntegerSub
    \/ IntegerAddSignedLimb
    \/ IntegerDivExact
    \/ IntegerDivExactSignedLimb
    \/ IntegerDivRound
    \/ IntegerShr

SpecIntegerOps == InitIntegerOps /\ [][NextIntegerOps]_vars

(***************************************************************************)
(* C30: after any sequence of Integer subtractions, additions of a         *)
(* SignedLimb, exact divisions by an Integer or a SignedLimb, div_rounds   *)
(* and right shifts, from Integers in which zero has sign = true, every    *)
(* Integer whose abs is 0 has sign = true, also where the two operands are *)
(* one object or have equal magnitudes.                                    *)
(***************************************************************************)
C30_NoNegativeZero ==
    \A r \in Registers : res[r].abs = natural_zero => res[r].sign

\* -5 and -5 in two objects, and their difference, left in x: zero with sign = true.
C30_Witness ==
    /\ pc = "done"
    /\ op = "sub"
    /\ arg = [x |-> IntegerOf(-5), y |-> IntegerOf(-5)]
    /\ res = [x |-> integer_zero, y |-> IntegerOf(-5)]

\* A zero reached by a right shift of a negative value after other operations.
C30_WitnessShr ==
    /\ pc = "done"
    /\ op = "shr"
    /\ arg = [x |-> IntegerOf(3), y |-> IntegerOf(-4)]
    /\ res = [x |-> integer_zero, y |-> IntegerOf(-1)]

====
